---- MODULE Spec2Model ----
(***************************************************************************)
(* State-machine model of the agent node core:                             *)
(*   - the approval queue (core/approval/engine.py), the policy engine     *)
(*     (core/policy.py) and the tool registry (core/tools/registry.py);    *)
(*   - the interop bridge (core/interop/bridge.py): envelope validation,   *)
(*     nonce ledger, message log, direct / hub-routed sending, relaying;  *)
(*   - the POST /interop/inbox handler (core/health/server.py).            *)
(* Every handler is one action.  `last` records what the most recent call  *)
(* returned or raised, what it did to the outside world (tool invocation,  *)
(* network POSTs) and the rows it appended to the episodic log, so that    *)
(* results can be stated as state predicates.                              *)
(***************************************************************************)
EXTENDS Integers, Sequences, FiniteSets, TLC

VARIABLES
    now,              \* wall clock, seconds (time.time() / CURRENT_TIMESTAMP)
    allowed,          \* PolicyEngine._allowed: the profile's permitted tiers
    approvals,        \* table approval_queue, row id = index
    toolInvocations,  \* per approval id: how often tool.execute ran for it
    profile_name,     \* InteropBridge._profile_name
    nodes_file,       \* content of config/nodes.yaml
    nonces,           \* table interop_nonces
    messages,         \* table interop_messages, row id = index
    last,             \* outcome of the most recent call
    public_readonly_mode,           \* Profile.public_readonly_mode
    public_readonly_get_endpoints,  \* Profile.public_readonly_get_endpoints, as a set
    http,             \* the request the control surface served last, and its response
    threads,          \* position and locals of each call that runs step by step
    connection,       \* the sqlite3 connection the handler threads share
    scheduler         \* main()'s running flag and the check-in thread's position

vars == <<now, allowed, approvals, toolInvocations,
          profile_name, nodes_file, nonces, messages, last,
          public_readonly_mode, public_readonly_get_endpoints, http, threads, connection,
          scheduler>>

approvalVars == <<allowed, approvals, toolInvocations>>
bridgeVars == <<profile_name, nodes_file, nonces, messages>>
configVars == <<public_readonly_mode, public_readonly_get_endpoints>>
handlerVars == <<configVars, http, threads, connection, scheduler>>

----------------------------------------------------------------------------
\* Bounds of the model.
MaxTime == 2
MaxApprovals == 1
MaxInvocations == 2
MaxMessages == 1

----------------------------------------------------------------------------
\* Values shared by both halves.

\* A JSON payload: an object (dict) or some other JSON value such as 5.
Payloads == {[kind |-> "object", ref |-> "p1"], [kind |-> "number", ref |-> "5"]}

NoHost == <<>>
NoCause == [type |-> "none", host |-> NoHost]

\* No envelope, no response body.
NoEnvelope ==
    [source |-> "", target |-> "", task_type |-> "", payload |-> [kind |-> "none", ref |-> ""],
     nonce |-> 0, timestamp |-> 0, signature |-> [key |-> "", msg |-> <<>>],
     keys |-> {}, v2 |-> "absent"]
NoResponse == [accepted |-> FALSE]

Idle == [op |-> "init", ok |-> FALSE, raised |-> "none", detail |-> "",
         id |-> 0, invoked |-> FALSE, tool |-> "", nonce |-> 0,
         posts |-> <<>>, cause |-> NoCause, routed_via |-> "", events |-> <<>>,
         target |-> "", route |-> "", direct |-> "", via_hub |-> "",
         appended |-> 0, ledger_rows |-> 0,
         envelope |-> NoEnvelope, original |-> NoEnvelope, mode_file |-> "",
         relayer |-> "", response |-> NoResponse, status_code |-> 0,
         tier |-> "", decision |-> "", reason |-> <<>>, requested |-> <<>>,
         approval_required |-> FALSE, enqueued |-> 0,
         payload |-> [kind |-> "none", ref |-> ""],
         outcome |-> "", runs |-> 0]

\* The call returned normally.
Returned(op, ok, detail) == [Idle EXCEPT !.op = op, !.ok = ok, !.detail = detail]

\* The call raised an exception of the given type.
Raised(op, type, detail) == [Idle EXCEPT !.op = op, !.raised = type, !.detail = detail]

\* The control surface has served no request yet.
NoRequest ==
    [method |-> "", path |-> "", status_code |-> 0,
     changed |-> FALSE, events |-> 0, invoked |-> FALSE]

\* The two handler threads of the ThreadingHTTPServer that serve two requests
\* at the same time, and a thread that serves none.
Threads == {"t1", "t2"}

IdleThread ==
    [pc |-> "idle", id |-> 0, envelope |-> NoEnvelope, outcome |-> "", ok |-> FALSE,
     raised |-> "none", detail |-> "", persisted |-> FALSE, approve |-> FALSE]

\* The connection's own state: whether a transaction is open on it, and the
\* row count of the statement that ran on it last (sqlite3_changes).
IdleConnection == [in_transaction |-> FALSE, changes |-> 0]

\* main() before any signal: running is true and the check-in thread is about
\* to test it; late_rounds counts the rounds of check-ins begun while running
\* was false.
IdleScheduler == [running |-> TRUE, pc |-> "test", slept |-> 0, late_rounds |-> 0]

\* The profile defaults of core/profile.py, no request served, no thread busy.
ProfileDefaultEndpoints == {"/health", "/status", "/api-usage", "/backup/status"}

IdleSurface ==
    /\ public_readonly_mode = FALSE
    /\ public_readonly_get_endpoints = ProfileDefaultEndpoints
    /\ http = NoRequest
    /\ threads = [t \in Threads |-> IdleThread]
    /\ connection = IdleConnection
    /\ scheduler = IdleScheduler

----------------------------------------------------------------------------
\* core/policy.py

Tiers == {"tier0", "tier1", "tier2"}

PolicyResult(decision, reason) == [decision |-> decision, reason |-> reason]

\* Mutant: check letting every permitted tier run without approval.
check_PermittedAllows(tool_name, tier, permitted) ==
    IF tier \in permitted
    THEN PolicyResult("allow", <<tool_name, " is permitted">>)
    ELSE PolicyResult("deny", <<"Tier is not permitted for this profile">>)

\* Mutant: check never denying: a tier outside the permitted set is queued.
check_NoDeny(tool_name, tier, permitted) ==
    IF tier = "tier0"
    THEN PolicyResult("allow", <<tool_name, " is Tier 0">>)
    ELSE PolicyResult("require_approval", <<tool_name, " requires approval">>)

\* PolicyEngine.check(tool_name, tier) against the permitted set.  A reason is
\* the sequence of the fragments its f-string joins.
check(tool_name, tier, permitted) ==
    IF tier = "tier0"
    THEN IF "tier0" \in permitted
         THEN PolicyResult("allow", <<tool_name, " is Tier 0">>)
         ELSE PolicyResult("deny", <<"Tier 0 is not permitted for this profile">>)
    ELSE IF tier = "tier1"
    THEN IF "tier1" \in permitted
         THEN PolicyResult("require_approval",
                           <<tool_name, " requires human approval (Tier 1)">>)
         ELSE PolicyResult("deny", <<"Tier 1 is not permitted for this profile">>)
    ELSE IF tier = "tier2"
    THEN IF "tier2" \in permitted
         THEN PolicyResult("require_approval",
                           <<tool_name, " requires Jason Core approval (Tier 2)">>)
         ELSE PolicyResult("deny", <<"Tier 2 is restricted to Jason Core">>)
    ELSE PolicyResult("deny", <<"Unknown tool tier">>)

\* Mutant: the risky set without secrets_access.
risky_NoSecrets == {"screen", "filesystem_write", "network_external"}

\* The risky permissions of check_skill_permissions.
risky == {"screen", "filesystem_write", "network_external", "secrets_access"}

\* sorted(requested.intersection(risky)): the risky names in alphabetical order.
risky_found(requested) ==
    SelectSeq(<<"filesystem_write", "network_external", "screen", "secrets_access">>,
              LAMBDA perm : perm \in requested \cap risky)

\* PolicyEngine.check_skill_permissions(permissions_requested); the empty
\* string is the falsy element the comprehension drops.
check_skill_permissions(permissions_requested) ==
    LET requested == {permissions_requested[i] :
                          i \in {j \in 1..Len(permissions_requested) :
                                     permissions_requested[j] # ""}}
    IN IF risky_found(requested) = <<>>
       THEN PolicyResult("allow", <<"No risky skill permissions requested">>)
       ELSE PolicyResult("require_approval",
                         <<"Skill permissions require approval: ", risky_found(requested)>>)

----------------------------------------------------------------------------
\* core/tools: the registered tools and their tiers.

RegisteredTools == {"get_time", "request_email", "delegate_node_task"}
ToolNames == RegisteredTools \cup {"no_such_tool"}

TierOf(tool_name) ==
    CASE tool_name = "get_time" -> "tier0"
      [] tool_name = "request_email" -> "tier1"
      [] tool_name = "delegate_node_task" -> "tier2"
      [] OTHER -> "none"

\* What one run of tool.execute(payload) can do: return ok = true, return
\* ok = false, or raise (request_email on a non-string subject; delegate_node_task
\* when send_task lets a URLError escape).
ToolOutcomes == {"ok", "fail", "raise"}

ToolResult(outcome) ==
    IF outcome = "ok" THEN [ok |-> TRUE, output |-> "tool_output"]
    ELSE [ok |-> FALSE, output |-> "tool_error"]

----------------------------------------------------------------------------
\* core/approval/engine.py over table approval_queue (core/memory/engine.py).

\* Mutant: a registry that runs a tool again when it reports failure.
run_tool_Retry(outcome) ==
    [result |-> ToolResult(outcome), runs |-> IF ToolResult(outcome).ok THEN 1 ELSE 2]

\* result = tool.execute(payload): one run, its result handed on as it is.
run_tool(outcome) == [result |-> ToolResult(outcome), runs |-> 1]

NULL == 0
NoResult == [ok |-> FALSE, output |-> "null"]

\* Mutant: a row inserted as already approved.
NewApproval_Approved(tool_name, tier, payload) ==
    [tool_name |-> tool_name, tier |-> tier, payload |-> payload,
     status |-> "approved", reviewed_at |-> NULL,
     execution_status |-> "not_executed", executed_at |-> NULL,
     execution_result |-> NoResult]

\* A freshly inserted row: the column defaults of the schema and its migrations.
NewApproval(tool_name, tier, payload) ==
    [tool_name |-> tool_name, tier |-> tier, payload |-> payload,
     status |-> "pending", reviewed_at |-> NULL,
     execution_status |-> "not_executed", executed_at |-> NULL,
     execution_result |-> NoResult]

\* ApprovalEngine.enqueue: INSERT, returns lastrowid.
enqueue(q, tool_name, tier, payload) == Append(q, NewApproval(tool_name, tier, payload))

\* ApprovalEngine.get: the row or none.
Exists(q, approval_id) == approval_id \in 1..Len(q)

\* Mutant: the UPDATE of resolve without its status = 'pending' condition.
resolveMatches_AnyStatus(q, approval_id) == Exists(q, approval_id)

\* ApprovalEngine.resolve: UPDATE ... WHERE id = ? AND status = 'pending'.
resolveMatches(q, approval_id) ==
    Exists(q, approval_id) /\ q[approval_id].status = "pending"

resolveUpdate(q, approval_id, approve, t) ==
    IF resolveMatches(q, approval_id)
    THEN [q EXCEPT ![approval_id].status = IF approve THEN "approved" ELSE "rejected",
                   ![approval_id].reviewed_at = t]
    ELSE q

\* Mutant: mark_executed without its status = 'approved' condition.
markExecutedMatches_AnyStatus(q, approval_id) ==
    Exists(q, approval_id) /\ q[approval_id].execution_status # "executed"

\* Mutant: mark_executed without its execution_status != 'executed' condition.
markExecutedMatches_Again(q, approval_id) ==
    Exists(q, approval_id) /\ q[approval_id].status = "approved"

\* ApprovalEngine.mark_executed:
\* UPDATE ... WHERE id = ? AND status = 'approved' AND execution_status != 'executed'.
markExecutedMatches(q, approval_id) ==
    /\ Exists(q, approval_id)
    /\ q[approval_id].status = "approved"
    /\ q[approval_id].execution_status # "executed"

markExecutedUpdate(q, approval_id, result, t) ==
    IF markExecutedMatches(q, approval_id)
    THEN [q EXCEPT ![approval_id].execution_status = "executed",
                   ![approval_id].executed_at = t,
                   ![approval_id].execution_result = result]
    ELSE q

----------------------------------------------------------------------------
\* Episodic events (core/memory/episodic_memory.py).  The episodic table is
\* append-only and never read back by the operations modelled here, so the
\* model keeps the rows a call appended (last.events) instead of the whole table.

Event(event_type, tool_name, decision) ==
    [event_type |-> event_type, tool_name |-> tool_name, decision |-> decision]

----------------------------------------------------------------------------
\* Actions of the approval pipeline.

\* The clock advances.
Tick ==
    /\ now < MaxTime
    /\ now' = now + 1
    /\ UNCHANGED <<approvalVars, bridgeVars, last, handlerVars>>

\* ApprovalEngine.resolve(approval_id, approve).
resolve(approval_id, approve) ==
    /\ approvals' = resolveUpdate(approvals, approval_id, approve, now)
    /\ last' = [Returned("resolve", resolveMatches(approvals, approval_id), "")
                  EXCEPT !.id = approval_id]
    /\ UNCHANGED <<now, allowed, toolInvocations, bridgeVars>>

\* ApprovalEngine.mark_executed(approval_id, result).
mark_executed(approval_id, result) ==
    /\ approvals' = markExecutedUpdate(approvals, approval_id, result, now)
    /\ last' = [Returned("mark_executed", markExecutedMatches(approvals, approval_id), "")
                  EXCEPT !.id = approval_id]
    /\ UNCHANGED <<now, allowed, toolInvocations, bridgeVars>>

\* ToolRegistry.execute(tool_name, payload); outcome is what the tool does if run.
execute(tool_name, payload, outcome) ==
    LET policy == check(tool_name, TierOf(tool_name), allowed)
        queued == tool_name \in RegisteredTools /\ policy.decision = "require_approval"
        call == [Idle EXCEPT !.op = "execute", !.tool = tool_name, !.payload = payload,
                             !.tier = TierOf(tool_name), !.decision = policy.decision,
                             !.enqueued = Len(approvals') - Len(approvals)]
    IN
    /\ Len(approvals) < MaxApprovals
    /\ approvals' = IF queued
                    THEN enqueue(approvals, tool_name, TierOf(tool_name), payload)
                    ELSE approvals
    /\ last' =
          IF tool_name \notin RegisteredTools
          THEN [Returned("execute", FALSE, "Unknown tool") EXCEPT !.tool = tool_name]
          ELSE IF policy.decision = "deny"
          THEN [call EXCEPT !.detail = "error", !.reason = policy.reason,
                            !.events = <<Event("tool_denied", tool_name, "deny")>>]
          ELSE IF policy.decision = "require_approval"
          THEN [call EXCEPT !.detail = "approval_required", !.approval_required = TRUE,
                            !.id = Len(approvals'), !.reason = policy.reason,
                            !.events = <<Event("tool_queued_for_approval", tool_name,
                                               "require_approval")>>]
          ELSE IF outcome = "raise"
          THEN [call EXCEPT !.raised = "ToolError", !.invoked = TRUE,
                            !.outcome = outcome, !.runs = 1]
          ELSE [call EXCEPT !.ok = run_tool(outcome).result.ok,
                            !.detail = run_tool(outcome).result.output,
                            !.invoked = TRUE, !.outcome = outcome,
                            !.runs = run_tool(outcome).runs,
                            !.events = <<Event("tool_executed", tool_name,
                                               policy.decision)>>]
    /\ UNCHANGED <<now, allowed, toolInvocations, bridgeVars>>

\* Mutant: execute_approved refusing only rejected approvals.
isApproved_NotRejected(approval) == approval.status # "rejected"

\* The status test of execute_approved (registry.py line 86).
isApproved(approval) == approval.status = "approved"

\* ToolRegistry.execute_approved(approval_id); outcome is what the tool does if run.
execute_approved(approval_id, outcome) ==
    /\ toolInvocations[approval_id] < MaxInvocations
    /\ IF ~Exists(approvals, approval_id)
       THEN /\ last' = [Returned("execute_approved", FALSE, "Approval not found")
                          EXCEPT !.id = approval_id]
            /\ UNCHANGED <<approvals, toolInvocations>>
       ELSE LET approval == approvals[approval_id] IN
            IF ~isApproved(approval)
            THEN /\ last' = [Returned("execute_approved", FALSE, "is not approved")
                               EXCEPT !.id = approval_id]
                 /\ UNCHANGED <<approvals, toolInvocations>>
            ELSE IF approval.execution_status = "executed"
            THEN /\ last' = [Returned("execute_approved", TRUE, "already_executed")
                               EXCEPT !.id = approval_id]
                 /\ UNCHANGED <<approvals, toolInvocations>>
            ELSE IF approval.payload.kind # "object"
            THEN \* dict(approval["payload"]) raises on a non-object payload
                 /\ last' = [Raised("execute_approved", "TypeError", "")
                               EXCEPT !.id = approval_id]
                 /\ UNCHANGED <<approvals, toolInvocations>>
            ELSE IF approval.tool_name \notin RegisteredTools
            THEN /\ last' = [Returned("execute_approved", FALSE, "Unknown tool")
                               EXCEPT !.id = approval_id, !.tool = approval.tool_name]
                 /\ UNCHANGED <<approvals, toolInvocations>>
            ELSE /\ toolInvocations' =
                        [toolInvocations EXCEPT ![approval_id] = @ + 1]
                 /\ IF outcome = "raise"
                    THEN /\ last' = [Raised("execute_approved", "ToolError", "")
                                       EXCEPT !.id = approval_id, !.invoked = TRUE,
                                              !.tool = approval.tool_name]
                         /\ UNCHANGED approvals
                    ELSE /\ approvals' = markExecutedUpdate(approvals, approval_id,
                                                            ToolResult(outcome), now)
                         /\ last' = [Returned("execute_approved", ToolResult(outcome).ok,
                                              ToolResult(outcome).output)
                                       EXCEPT !.id = approval_id, !.invoked = TRUE,
                                              !.tool = approval.tool_name,
                                              !.events = <<Event("tool_executed_after_approval",
                                                                 approval.tool_name, "allow")>>]
    /\ UNCHANGED <<now, allowed, bridgeVars>>

\* Approval ids a caller may pass: the rows that can exist and one that never does.
ApprovalIds == 1..(MaxApprovals + 1)

Execute ==
    \E t \in ToolNames, p \in Payloads, o \in ToolOutcomes : execute(t, p, o) /\ UNCHANGED handlerVars
ExecuteApproved ==
    \E i \in ApprovalIds, o \in ToolOutcomes : execute_approved(i, o) /\ UNCHANGED handlerVars
Resolve ==
    \E i \in ApprovalIds, a \in BOOLEAN : resolve(i, a) /\ UNCHANGED handlerVars
MarkExecuted ==
    \E i \in ApprovalIds, o \in {"ok", "fail"} : mark_executed(i, ToolResult(o)) /\ UNCHANGED handlerVars

----------------------------------------------------------------------------
\* core/interop/bridge.py: node directory and routing hub.

Profiles == {"scarlet", "jason", "kiera"}

\* A host name as its dot-separated labels; <<>> is the empty string.
HubLocal == <<"hub", "local">>
KieraLocal == <<"kiera", "local">>
ScarletLocal == <<"scarlet", "local">>
JasonTBD == <<"jason", "TBD">>

\* host.endswith(".TBD")
EndsWithTBD(host) == Len(host) >= 2 /\ host[Len(host)] = "TBD"


\* Mutant: the host test without its .TBD clause.
isConfiguredHost_NonEmpty(host) == host # NoHost

\* The host test of _configured_targets, on the host as stripped of
\* surrounding whitespace: non-empty and not ending in .TBD.
isConfiguredHost(host) == host # NoHost /\ ~EndsWithTBD(host)

\* InteropBridge._configured_targets: the peers this node may send to.
configured_targets(self, cfg) ==
    {p \in Profiles : isConfiguredHost(cfg.hosts[p]) /\ p # self}

\* InteropBridge._routing_hub_profile; "" stands for None.
routing_hub_profile(self, cfg) ==
    IF cfg.hub_profile # ""
    THEN cfg.hub_profile
    ELSE IF "jason" \in configured_targets(self, cfg) \/ self = "jason"
         THEN "jason"
         ELSE ""

----------------------------------------------------------------------------
\* Envelopes and their signatures.

MAX_CLOCK_SKEW_SECONDS == 300

SharedKey == "test-key"
ForeignKey == "other-key"

Required == {"source", "target", "task_type", "payload", "nonce", "timestamp", "signature"}

\* Mutant: a canonical form that leaves the timestamp out.
canonical_payload_NoTimestamp(envelope) ==
    <<envelope.nonce, envelope.payload, envelope.source, envelope.target,
      envelope.task_type>>

\* InteropBridge._canonical_payload: the six covered fields.
canonical_payload(envelope) ==
    <<envelope.nonce, envelope.payload, envelope.source, envelope.target,
      envelope.task_type, envelope.timestamp>>

\* InteropBridge._sign: HMAC-SHA-256 of the canonical form under a key,
\* modelled as the pair (key, message), which collides for no two inputs.
sign(key, envelope) == [key |-> key, msg |-> canonical_payload(envelope)]

\* InteropBridge.build_envelope, without an identity key on this node.
build_envelope(source, target, task_type, payload, nonce, timestamp) ==
    LET body == [source |-> source, target |-> target, task_type |-> task_type,
                 payload |-> payload, nonce |-> nonce, timestamp |-> timestamp]
    IN [source |-> source, target |-> target, task_type |-> task_type,
        payload |-> payload, nonce |-> nonce, timestamp |-> timestamp,
        signature |-> sign(SharedKey, body), keys |-> Required, v2 |-> "absent"]

\* InteropBridge._identity_mode: the mode file's content, normalised.
IdentityModes == {"compat", "provenance", "strict"}
ModeFiles == IdentityModes \cup {"missing", "garbage"}

\* Mutant: the mode file is never read.
identity_mode_Compat(raw) == "compat"

identity_mode(raw) == IF raw \in IdentityModes THEN raw ELSE "compat"

\* Mutant: the difference taken with its sign.
abs_Signed(x) == x

\* |x|
abs(x) == IF x < 0 THEN -x ELSE x

----------------------------------------------------------------------------
\* Nonce ledger and message log.

NonceRow(nonce, source, target) == [nonce |-> nonce, source |-> source, target |-> target]

\* Mutant: the replay lookup never finds a row.
is_replay_Never(ledger, nonce) == FALSE

\* InteropBridge._is_replay: SELECT ... WHERE nonce = ?
is_replay(ledger, nonce) == \E r \in ledger : r.nonce = nonce

\* Mutant: a ledger without its primary key.
nonce_conflict_Never(ledger, nonce) == FALSE

\* nonce TEXT PRIMARY KEY: an INSERT of a nonce the table holds fails
\* (sqlite3.IntegrityError).
nonce_conflict(ledger, nonce) == \E r \in ledger : r.nonce = nonce

Status(kind, hub, reason) == [kind |-> kind, hub |-> hub, reason |-> reason]

\* InteropBridge._record_message: one appended row.
\* created_at takes the column default CURRENT_TIMESTAMP.
MessageRecord(direction, source, target, task_type, payload, nonce, status) ==
    [direction |-> direction, source |-> source, target |-> target,
     task_type |-> task_type, payload |-> payload, nonce |-> nonce, status |-> status,
     created_at |-> now]

\* id INTEGER PRIMARY KEY AUTOINCREMENT: one more than the largest id in use.
next_id(log) == IF log = <<>> THEN 1 ELSE log[Len(log)].id + 1

\* Mutant: _record_message as an upsert that overwrites the newest row.
record_message_Overwrite(log, direction, source, target, task_type, payload, nonce, status) ==
    LET row == MessageRecord(direction, source, target, task_type, payload, nonce, status)
    IN IF log = <<>>
       THEN <<row @@ [id |-> 1]>>
       ELSE Append(SubSeq(log, 1, Len(log) - 1), row @@ [id |-> log[Len(log)].id])

\* InteropBridge._record_message: INSERT and commit.
record_message(log, direction, source, target, task_type, payload, nonce, status) ==
    Append(log, MessageRecord(direction, source, target, task_type, payload, nonce, status)
                    @@ [id |-> next_id(log)])

----------------------------------------------------------------------------
\* Inbound: _validate_envelope and receive_envelope.

\* The first check of _validate_envelope that rejects the envelope, in the
\* order of the code, or "" when all checks before the replay test pass.
validation_error(envelope, expected, t, mode) ==
    IF Required \ envelope.keys # {}
    THEN "Envelope missing fields"
    ELSE IF envelope.target # expected
    THEN "Envelope target mismatch"
    ELSE IF abs(t - envelope.timestamp) > MAX_CLOCK_SKEW_SECONDS
    THEN "Envelope timestamp outside allowed skew window"
    ELSE IF sign(SharedKey, envelope) # envelope.signature
    THEN "Envelope signature invalid"
    ELSE IF mode = "strict" /\ envelope.v2 # "valid"
    THEN "Envelope identity signature invalid or missing (strict mode)"
    ELSE IF mode = "provenance" /\ envelope.v2 = "invalid"
    THEN "Envelope identity signature invalid (provenance mode)"
    ELSE ""

\* How far receive_envelope gets: the exception it raises ("none": it
\* returns accepted), whether _record_nonce inserted and committed its row,
\* and whether _record_message appended the inbox row.
Outcome(raised, detail, nonce_insert, message_insert) ==
    [raised |-> raised, detail |-> detail,
     nonce_insert |-> nonce_insert, message_insert |-> message_insert]

\* Mutant: _validate_envelope recording the nonce ahead of its checks.
validate_envelope_NonceFirst(envelope, expected, t, mode, ledger, verify_replay) ==
    LET err == validation_error(envelope, expected, t, mode) IN
    IF verify_replay /\ is_replay(ledger, envelope.nonce)
    THEN Outcome("RuntimeError", "Replay detected: nonce already seen", FALSE, FALSE)
    ELSE IF err # ""
    THEN Outcome("RuntimeError", err, verify_replay, FALSE)
    ELSE IF envelope.payload.kind # "object"
    THEN Outcome("TypeError", "", verify_replay, FALSE)
    ELSE Outcome("none", "accepted", verify_replay, TRUE)

\* InteropBridge._validate_envelope(envelope, expected_target, verify_replay)
\* at time t under identity mode `mode` with nonce ledger `ledger`;
\* message_insert: it returned the validated descriptor.
validate_envelope(envelope, expected, t, mode, ledger, verify_replay) ==
    LET err == validation_error(envelope, expected, t, mode) IN
    IF err # ""
    THEN Outcome("RuntimeError", err, FALSE, FALSE)
    ELSE IF verify_replay /\ is_replay(ledger, envelope.nonce)
    THEN Outcome("RuntimeError", "Replay detected: nonce already seen", FALSE, FALSE)
    ELSE IF verify_replay /\ nonce_conflict(ledger, envelope.nonce)
    THEN \* _record_nonce: the INSERT violates the primary key
         Outcome("IntegrityError", "", FALSE, FALSE)
    ELSE IF envelope.payload.kind # "object"
    THEN \* dict(envelope["payload"]) raises after _record_nonce has committed
         Outcome("TypeError", "", verify_replay, FALSE)
    ELSE Outcome("none", "accepted", verify_replay, TRUE)

\* The call receive_envelope makes: expected_target = this node, verify_replay.
receive_outcome(envelope, expected, t, mode, ledger) ==
    validate_envelope(envelope, expected, t, mode, ledger, TRUE)

\* The two writes of the receive path: _record_nonce, then _record_message.
received(envelope, o) ==
    /\ nonces' = IF o.nonce_insert
                 THEN nonces \cup {NonceRow(envelope.nonce, envelope.source, envelope.target)}
                 ELSE nonces
    /\ messages' = IF o.message_insert
                   THEN record_message(messages, "inbox", envelope.source, envelope.target,
                                       envelope.task_type, envelope.payload, envelope.nonce,
                                       Status("received", "", NoCause))
                   ELSE messages

\* InteropBridge.receive_envelope(envelope), the mode file reading mode_file.
receive_envelope(envelope, mode_file) ==
    LET o == receive_outcome(envelope, profile_name, now, identity_mode(mode_file), nonces) IN
    /\ received(envelope, o)
    /\ Len(messages') <= MaxMessages
    /\ last' = [Idle EXCEPT !.op = "receive_envelope", !.nonce = envelope.nonce,
                            !.ok = (o.raised = "none"), !.raised = o.raised,
                            !.detail = o.detail,
                            !.appended = Len(messages') - Len(messages),
                            !.ledger_rows = Cardinality(nonces') - Cardinality(nonces)]
    /\ UNCHANGED <<now, approvalVars, profile_name, nodes_file>>

----------------------------------------------------------------------------
\* Outbound: send_task and _send_route_via_hub.

TaskTypes == {"skills_checkin"}
Routes == {"direct", "hub", "auto"}

\* What InteropBridge._post_envelope can do: return the peer's JSON, raise
\* URLError (no route, refused, HTTP error), raise JSONDecodeError (a reply
\* that is no JSON), or raise an error urlopen does not wrap in URLError:
\* TimeoutError while waiting for the reply (likewise RemoteDisconnected when
\* the peer closes the connection, UnicodeDecodeError on a reply that is no
\* UTF-8).
PostOutcomes == {"ok", "URLError", "JSONDecodeError", "TimeoutError"}

\* except (error.URLError, json.JSONDecodeError) in send_task
CaughtBySendTask == {"URLError", "JSONDecodeError"}

\* One call of _post_envelope: where, what, and how it ended.
Post(host, task_type, outcome) == [host |-> host, task_type |-> task_type, outcome |-> outcome]
Exc(type, host) == [type |-> type, host |-> host]

\* The head of _send_route_via_hub: the RuntimeError it raises, or "".
hub_route_error(self, cfg) ==
    LET hub == routing_hub_profile(self, cfg) IN
    IF hub = "" \/ hub = self
    THEN "Routing hub not configured for this profile"
    ELSE IF hub \notin configured_targets(self, cfg)
    THEN "Hub profile is not configured as target"
    ELSE ""

\* Mutant: the direct failure is never retried through the hub.
fallback_applies_Never(route_via, target_profile, hub) == FALSE

\* The fallback test of send_task (bridge.py line 314).
fallback_applies(route_via, target_profile, hub) ==
    route_via = "auto" /\ target_profile # hub

\* Nonces of the envelopes this node builds (secrets.token_hex): fresh values,
\* apart from the nonces peers send.
FreshNonce(log) == 10 + Len(log)

NoStatus == Status("none", "", NoCause)

\* How one send_task call ends: the exception it raises ("none": it returns
\* sent = true), the POSTs it made, the error a RuntimeError was raised from,
\* the hub it routed through, and the status of the outbox row it appended
\* (NoStatus: it appended none).
SendOutcome(raised, detail, posts, cause, routed_via, status) ==
    [raised |-> raised, detail |-> detail, posts |-> posts, cause |-> cause,
     routed_via |-> routed_via, status |-> status]

\* InteropBridge.send_task; direct and via_hub are what the POST to the
\* target and the POST to the hub do.
send_outcome(self, cfg, target_profile, task_type, route_via, direct, via_hub) ==
    LET hub == routing_hub_profile(self, cfg)
        hub_error == hub_route_error(self, cfg)
        target_post == Post(cfg.hosts[target_profile], task_type, direct)
        hub_post == Post(cfg.hosts[hub], "route_envelope", via_hub)
        exc == Exc(direct, cfg.hosts[target_profile])
        \* the failure path: one failed row, RuntimeError raised from exc
        failed(posts) ==
            SendOutcome("RuntimeError", "Failed to send interop message", posts, exc, "",
                        Status("failed", "", exc))
        \* _send_route_via_hub after the POSTs in `before`; in_fallback: called
        \* inside try ... except RuntimeError: pass
        route_via_hub(before, in_fallback) ==
            IF hub_error # ""
            THEN IF in_fallback
                 THEN failed(before)
                 ELSE SendOutcome("RuntimeError", hub_error, before, NoCause, "", NoStatus)
            ELSE IF via_hub # "ok"
            THEN \* the hub POST raises; URLError and JSONDecodeError are no
                 \* RuntimeError, so nothing catches them
                 SendOutcome(via_hub, "", Append(before, hub_post),
                             Exc(via_hub, cfg.hosts[hub]), "", NoStatus)
            ELSE SendOutcome("none", "sent", Append(before, hub_post), NoCause, hub,
                             Status("sent:routed", hub, NoCause))
    IN
    IF target_profile \notin configured_targets(self, cfg)
    THEN SendOutcome("RuntimeError", "Target not allowlisted/configured", <<>>, NoCause, "",
                     NoStatus)
    ELSE IF route_via = "hub"
    THEN route_via_hub(<<>>, FALSE)
    ELSE IF direct = "ok"
    THEN SendOutcome("none", "sent", <<target_post>>, NoCause, "", Status("sent", "", NoCause))
    ELSE IF direct \notin CaughtBySendTask
    THEN \* no except clause matches: the error leaves send_task as it is
         SendOutcome(direct, "", <<target_post>>, exc, "", NoStatus)
    ELSE IF fallback_applies(route_via, target_profile, hub)
    THEN route_via_hub(<<target_post>>, TRUE)
    ELSE failed(<<target_post>>)

send_task(target_profile, task_type, payload, route_via, direct, via_hub) ==
    LET o == send_outcome(profile_name, nodes_file, target_profile, task_type, route_via,
                          direct, via_hub)
        envelope == build_envelope(profile_name, target_profile, task_type, payload,
                                   FreshNonce(messages), now)
    IN
    /\ messages' = IF o.status # NoStatus
                   THEN record_message(messages, "outbox", profile_name, target_profile,
                                       task_type, payload, envelope.nonce, o.status)
                   ELSE messages
    /\ Len(messages') <= MaxMessages
    /\ last' = [Idle EXCEPT !.op = "send_task", !.target = target_profile,
                            !.route = route_via, !.direct = direct, !.via_hub = via_hub,
                            !.ok = (o.raised = "none"),
                            !.raised = o.raised, !.detail = o.detail, !.posts = o.posts,
                            !.cause = o.cause, !.routed_via = o.routed_via,
                            !.appended = Len(messages') - Len(messages)]
    /\ UNCHANGED <<now, approvalVars, profile_name, nodes_file, nonces>>

----------------------------------------------------------------------------
\* The daily skills check-in: send_daily_skills_checkins and the loop of
\* core/agent.py that calls it.

\* interval_seconds as the loop passes it, and the seconds the loop sleeps
\* between two calls.
DAILY_INTERVAL_SECONDS == 86400
WAKE_SECONDS == 3600

None == -1

\* The rows the query of _last_outbox_timestamp selects:
\* direction = 'outbox' AND target_node = ? AND task_type = ? AND status = 'sent'.
sent_rows(log, target, task_type) ==
    {i \in 1..Len(log) : /\ log[i].direction = "outbox"
                         /\ log[i].target = target
                         /\ log[i].task_type = task_type
                         /\ log[i].status = Status("sent", "", NoCause)}

\* InteropBridge._last_outbox_timestamp: ORDER BY id DESC LIMIT 1.
last_outbox_timestamp(log, target, task_type) ==
    LET rows == sent_rows(log, target, task_type) IN
    IF rows = {} THEN None
    ELSE log[CHOOSE i \in rows : \A j \in rows : j <= i].created_at

\* The keys of _configured_targets in the order of the nodes file.
target_order(self, cfg) ==
    SelectSeq(<<"jason", "kiera", "scarlet">>, LAMBDA p : p \in configured_targets(self, cfg))

\* The loop of send_daily_skills_checkins over the targets still to visit;
\* env[target] is what the POSTs of that target's send_task do.  A send_task
\* that raises anything but RuntimeError ends the loop and the call.
RECURSIVE checkins(_, _, _, _, _)
checkins(todo, log, results, interval_seconds, env) ==
    IF todo = <<>>
    THEN [log |-> log, results |-> results, raised |-> "none"]
    ELSE LET target_profile == Head(todo)
             last_sent == last_outbox_timestamp(log, target_profile, "skills_checkin")
             o == send_outcome(profile_name, nodes_file, target_profile, "skills_checkin",
                               "auto", env[target_profile].direct, env[target_profile].via_hub)
             sent == IF o.status # NoStatus
                     THEN record_message(log, "outbox", profile_name, target_profile,
                                         "skills_checkin", [kind |-> "object", ref |-> "p1"],
                                         FreshNonce(log), o.status)
                     ELSE log
         IN IF last_sent # None /\ now - last_sent < interval_seconds
            THEN checkins(Tail(todo), log, results, interval_seconds, env)
            ELSE IF o.raised \notin {"none", "RuntimeError"}
            THEN [log |-> sent, results |-> results, raised |-> o.raised]
            ELSE checkins(Tail(todo), sent,
                          Append(results, [target |-> target_profile, ok |-> o.raised = "none"]),
                          interval_seconds, env)

\* The body of _daily_skills_checkin_loop ahead of its sleep: the call and
\* one episodic event per result.  The loop catches RuntimeError only; any
\* other exception ends its thread.
checkin_round(env) ==
    LET run == checkins(target_order(profile_name, nodes_file), messages, <<>>,
                        DAILY_INTERVAL_SECONDS, env)
    IN
    /\ messages' = run.log
    /\ last' = [Idle EXCEPT
                  !.op = "send_daily_skills_checkins",
                  !.ok = (run.raised = "none"), !.raised = run.raised,
                  !.events = IF run.raised # "none" THEN <<>>
                             ELSE [i \in 1..Len(run.results) |->
                                      Event("interop_skills_checkin_sent", "",
                                            IF run.results[i].ok THEN "allow" ELSE "deny")],
                  !.appended = Len(messages') - Len(messages)]

\* One turn of _daily_skills_checkin_loop with nothing happening during its
\* sleep.
daily_skills_checkin_loop(env) ==
    /\ last.raised = "none"
    /\ checkin_round(env)
    /\ now' = now + WAKE_SECONDS
    /\ UNCHANGED <<approvalVars, profile_name, nodes_file, nonces, handlerVars>>

----------------------------------------------------------------------------
\* Relay: forward_relay_envelope.

\* str.strip() on the names of the model: kiera's name followed by a space
\* is the one name that carries whitespace.
KieraPadded == "kiera "
strip(name) == IF name = KieraPadded THEN "kiera" ELSE name

\* inner_source != relayer_source, negated
source_matches(inner_source, relayer_source) == inner_source = relayer_source

\* Mutant: the relay validating as the inbox does, nonce included.
relay_verify_replay_True == TRUE

\* verify_replay as forward_relay_envelope passes it to _validate_envelope
relay_verify_replay == FALSE

\* How one forward_relay_envelope call ends: the exception it raises
\* ("none": it returns forwarded = true), the POSTs it made, whether it
\* appended its relay row, whether _validate_envelope inserted a nonce.
RelayOutcome(raised, detail, posts, forwarded, nonce_insert) ==
    [raised |-> raised, detail |-> detail, posts |-> posts, forwarded |-> forwarded,
     nonce_insert |-> nonce_insert]

\* InteropBridge.forward_relay_envelope; post is what the POST to the
\* target does.
relay_outcome(self, cfg, relayer_source, inner, t, mode, ledger, post) ==
    LET inner_source == strip(IF "source" \in inner.keys THEN inner.source ELSE "")
        target_profile == strip(IF "target" \in inner.keys THEN inner.target ELSE "")
        v == validate_envelope(inner, target_profile, t, mode, ledger, relay_verify_replay)
        target_post == Post(cfg.hosts[target_profile], inner.task_type, post)
    IN
    IF ~source_matches(inner_source, relayer_source)
    THEN RelayOutcome("RuntimeError", "Relay envelope source mismatch", <<>>, FALSE, FALSE)
    ELSE IF target_profile \notin configured_targets(self, cfg)
    THEN RelayOutcome("RuntimeError", "Relay target not configured", <<>>, FALSE, FALSE)
    ELSE IF v.raised # "none"
    THEN RelayOutcome(v.raised, v.detail, <<>>, FALSE, v.nonce_insert)
    ELSE IF post # "ok"
    THEN \* the POST raises; nothing in forward_relay_envelope catches it
         RelayOutcome(post, "", <<target_post>>, FALSE, v.nonce_insert)
    ELSE RelayOutcome("none", "forwarded", <<target_post>>, TRUE, v.nonce_insert)

\* Mutant: the relay row written with the status of an inbox row.
relay_status_Received(self) == Status("received", "", NoCause)

\* status = f"forwarded_by:{self._profile_name}"
relay_status(self) == Status("forwarded_by", self, NoCause)

forward_relay_envelope(relayer_source, inner_envelope, mode_file, post) ==
    LET o == relay_outcome(profile_name, nodes_file, relayer_source, inner_envelope, now,
                           identity_mode(mode_file), nonces, post)
    IN
    /\ nonces' = IF o.nonce_insert
                 THEN nonces \cup {NonceRow(inner_envelope.nonce, inner_envelope.source,
                                            inner_envelope.target)}
                 ELSE nonces
    /\ messages' = IF o.forwarded
                   THEN record_message(messages, "relay", inner_envelope.source,
                                       inner_envelope.target, inner_envelope.task_type,
                                       inner_envelope.payload, inner_envelope.nonce,
                                       relay_status(profile_name))
                   ELSE messages
    /\ Len(messages') <= MaxMessages
    /\ last' = [Idle EXCEPT !.op = "forward_relay_envelope", !.relayer = relayer_source,
                            !.envelope = inner_envelope, !.original = inner_envelope,
                            !.mode_file = mode_file, !.nonce = inner_envelope.nonce,
                            !.ok = (o.raised = "none"), !.raised = o.raised,
                            !.detail = o.detail, !.posts = o.posts,
                            !.appended = Len(messages') - Len(messages),
                            !.ledger_rows = Cardinality(nonces') - Cardinality(nonces)]
    /\ UNCHANGED <<now, approvalVars, profile_name, nodes_file>>

----------------------------------------------------------------------------
\* core/health/server.py: POST /interop/inbox.

\* Mutant: identity_signature_valid reporting that a v2 signature is present.
verify_v2_Present(envelope) == envelope.v2 # "absent"

\* InteropBridge._verify_v2: a v2 signature is present and verifies under
\* the signer's public key.
verify_v2(envelope) == envelope.v2 = "valid"

\* What receive_envelope returns, and the handler sends back with a reply
\* for a skills_checkin.
Accepted(envelope) ==
    [accepted |-> TRUE, source |-> envelope.source, target |-> envelope.target,
     task_type |-> envelope.task_type, payload |-> envelope.payload,
     nonce |-> envelope.nonce, identity_signature_valid |-> verify_v2(envelope),
     reply |-> (envelope.task_type = "skills_checkin")]

\* Handler.do_POST for /interop/inbox with a body that holds an envelope
\* object: receive_envelope, the episodic event, the HTTP status.  A
\* RuntimeError is answered with 400; any other exception leaves the handler
\* (status_code 0: no response is written).
interop_inbox_answer(envelope, original, mode_file, o) ==
    /\ received(envelope, o)
    /\ Len(messages') <= MaxMessages
    /\ last' = [Idle EXCEPT
                  !.op = "interop_inbox", !.envelope = envelope, !.original = original,
                  !.mode_file = mode_file, !.nonce = envelope.nonce,
                  !.ok = (o.raised = "none"), !.raised = o.raised, !.detail = o.detail,
                  !.response = IF o.raised = "none" THEN Accepted(envelope) ELSE NoResponse,
                  !.status_code = CASE o.raised = "none" -> 200
                                    [] o.raised = "RuntimeError" -> 400
                                    [] OTHER -> 0,
                  !.events = CASE o.raised = "none" ->
                                    <<Event("interop_message_received", "", "allow")>>
                               [] o.raised = "RuntimeError" ->
                                    <<Event("interop_message_rejected", "", "deny")>>
                               [] OTHER -> <<>>,
                  !.appended = Len(messages') - Len(messages),
                  !.ledger_rows = Cardinality(nonces') - Cardinality(nonces)]
    /\ UNCHANGED <<now, approvalVars, profile_name, nodes_file>>

\* The handler when _identity_mode has read `mode_file` from the mode file.
interop_inbox(envelope, original, mode_file) ==
    interop_inbox_answer(envelope, original, mode_file,
        receive_outcome(envelope, profile_name, now, identity_mode(mode_file), nonces))

\* What the identity-mode file can hold: nothing (no file), one of the three
\* modes, a mode with blanks and a newline around it, a mode in capitals,
\* no text at all, an unrelated word, a UTF-8 byte order mark ahead of a
\* mode, and the bytes of "strict" in UTF-16, which are no UTF-8 text.
ModeContents ==
    {"missing", "compat", "provenance", "strict", " strict\n", "STRICT", "", "garbage",
     "bom+strict", "utf16:strict"}

\* The first statement of _identity_mode:
\* read_text(encoding="utf-8").strip() if the file exists, else "compat".
\* Decoding raises UnicodeDecodeError on bytes that are no UTF-8 text; strip
\* removes the blanks and the newline, the byte order mark stays.
read_mode_file(content) ==
    CASE content = "missing" -> [raised |-> "none", raw |-> "compat"]
      [] content = "utf16:strict" -> [raised |-> "UnicodeDecodeError", raw |-> ""]
      [] content = " strict\n" -> [raised |-> "none", raw |-> "strict"]
      [] OTHER -> [raised |-> "none", raw |-> content]

\* Handler.do_POST for /interop/inbox with the mode file holding `content`:
\* _validate_envelope reads the file after the HMAC check, so an envelope
\* that fails an earlier check is answered before the file is looked at, and
\* an exception of the read leaves _validate_envelope before any nonce is
\* recorded.
interop_inbox_with_file(envelope, original, content) ==
    LET r == read_mode_file(content)
        before == validation_error(envelope, profile_name, now, "compat")
    IN interop_inbox_answer(envelope, original, content,
           IF before = "" /\ r.raised # "none"
           THEN Outcome(r.raised, "", FALSE, FALSE)
           ELSE receive_outcome(envelope, profile_name, now, identity_mode(r.raw), nonces))

----------------------------------------------------------------------------
\* Inputs of the bridge.

InboundNonces == {1, 2}
SkewOffsets == {-(MAX_CLOCK_SKEW_SECONDS + 1), -MAX_CLOCK_SKEW_SECONDS, 0,
                MAX_CLOCK_SKEW_SECONDS, MAX_CLOCK_SKEW_SECONDS + 1}

\* An envelope arriving at /interop/inbox: built by a peer that holds the
\* key given, then possibly stripped of its signature field.
Inbound(source, target, payload, nonce, timestamp, key, keys, v2) ==
    LET built == build_envelope(source, target, "skills_checkin", payload, nonce, timestamp)
    IN [built EXCEPT !.signature = sign(key, built), !.keys = keys, !.v2 = v2]

\* A well-formed envelope addressed to this node, and the ways to deviate
\* from it in one checked field: a missing signature field, another node as
\* target, a timestamp at or beyond the skew bound, a signature under
\* another key, a payload that is no JSON object.
WellFormed ==
    [target |-> profile_name, offset |-> 0, key |-> SharedKey, keys |-> Required,
     v2 |-> "absent", mode_file |-> "missing", payload |-> [kind |-> "object", ref |-> "p1"],
     nonce |-> 1]

InboundCases ==
    {[WellFormed EXCEPT !.v2 = v, !.mode_file = m] :
        v \in {"absent", "valid", "invalid"}, m \in ModeFiles}
    \cup {[WellFormed EXCEPT !.target = t] : t \in {"scarlet", "jason"}}
    \cup {[WellFormed EXCEPT !.offset = o] : o \in SkewOffsets}
    \cup {[WellFormed EXCEPT !.key = ForeignKey],
          [WellFormed EXCEPT !.keys = Required \ {"signature"}]}
    \cup {[WellFormed EXCEPT !.payload = p, !.nonce = n] : p \in Payloads, n \in InboundNonces}

ReceiveEnvelope ==
    \E c \in InboundCases :
        /\ receive_envelope(Inbound("kiera", c.target, c.payload, c.nonce, now + c.offset,
                                    c.key, c.keys, c.v2),
                            c.mode_file)
        /\ UNCHANGED handlerVars

\* The routes a caller can ask for, each with what the POSTs it may make do:
\* route "direct" never contacts the hub, route "hub" never contacts the
\* target, route "auto" contacts the hub only after the target has failed.
SendCases ==
    {[route_via |-> "direct", direct |-> d, via_hub |-> "ok"] : d \in PostOutcomes}
    \cup {[route_via |-> "hub", direct |-> "ok", via_hub |-> h] : h \in PostOutcomes}
    \cup {[route_via |-> "auto", direct |-> d, via_hub |-> "ok"] :
            d \in PostOutcomes \ CaughtBySendTask}
    \cup {[route_via |-> "auto", direct |-> d, via_hub |-> h] :
            d \in CaughtBySendTask, h \in PostOutcomes}

SendTask ==
    \E target \in Profiles, task_type \in TaskTypes, c \in SendCases :
        /\ send_task(target, task_type, [kind |-> "object", ref |-> "p1"], c.route_via,
                     c.direct, c.via_hub)
        /\ UNCHANGED handlerVars

\* Specification of the bridge: a node whose approval pipeline stays idle.
IdleApprovals ==
    /\ allowed = {"tier0", "tier1", "tier2"}
    /\ approvals = <<>>
    /\ toolInvocations = [i \in ApprovalIds |-> 0]

\* The directory lists jason, kiera and scarlet; jason's host may still be a
\* placeholder; the routing section may or may not name jason as the hub.
NodesFiles ==
    {[hub_profile |-> h,
      hosts |-> [p \in Profiles |-> CASE p = "jason" -> j
                                      [] p = "kiera" -> KieraLocal
                                      [] OTHER -> ScarletLocal]] :
        h \in {"", "jason"}, j \in {HubLocal, JasonTBD}}

\* The deployments: the node scarlet under the directory that names jason
\* as hub with a usable host and under the one with neither hub nor usable
\* host, and the hub node jason under the directory that names it.
Deployments ==
    {[profile |-> "scarlet", nodes |-> n] :
        n \in {m \in NodesFiles : (m.hub_profile = "jason") = (m.hosts["jason"] = HubLocal)}}
    \cup {[profile |-> "jason", nodes |-> n] :
            n \in {m \in NodesFiles : m.hub_profile = "jason" /\ m.hosts["jason"] = HubLocal}}

BridgeInit ==
    /\ now = 1
    /\ IdleApprovals
    /\ \E d \in Deployments : profile_name = d.profile /\ nodes_file = d.nodes
    /\ nonces = {}
    /\ messages = <<>>
    /\ last = Idle
    /\ IdleSurface

BridgeNext ==
    \/ ReceiveEnvelope
    \/ SendTask

BridgeSpec == BridgeInit /\ [][BridgeNext]_vars

\* Specification of the outbound path alone, over more node directories:
\* jason and kiera each listed with a usable host, with a placeholder host,
\* or with no host at all (an entry without host, or no entry).
TBDOnly == <<"TBD">>
KieraTBD == <<"kiera", "TBD">>

Directory(hub_profile, jason_host, kiera_host) ==
    [hub_profile |-> hub_profile,
     hosts |-> [p \in Profiles |-> CASE p = "jason" -> jason_host
                                     [] p = "kiera" -> kiera_host
                                     [] OTHER -> ScarletLocal]]

Directories ==
    {Directory(h, j, k) : h \in {"", "jason"},
                          j \in {HubLocal, JasonTBD, NoHost},
                          k \in {KieraLocal, KieraTBD, NoHost}}
    \cup {Directory("jason", HubLocal, TBDOnly)}

\* The node scarlet under each directory, the hub node jason under the
\* directories that name it.
OutboundDeployments ==
    {[profile |-> "scarlet", nodes |-> n] : n \in Directories}
    \cup {[profile |-> "jason", nodes |-> Directory("jason", HubLocal, k)] :
            k \in {KieraLocal, KieraTBD}}

OutboundInit ==
    /\ now = 1
    /\ IdleApprovals
    /\ \E d \in OutboundDeployments : profile_name = d.profile /\ nodes_file = d.nodes
    /\ nonces = {}
    /\ messages = <<>>
    /\ last = Idle
    /\ IdleSurface

OutboundNext == SendTask

OutboundSpec == OutboundInit /\ [][OutboundNext]_vars

\* Specification of the inbound side of a node: its /interop/inbox handler
\* and its relay operation.

\* The fields the signature covers.
Covered == {"source", "target", "task_type", "payload", "nonce", "timestamp"}

\* Another node than p.
OtherThan(p) == IF p = "scarlet" THEN "jason" ELSE "scarlet"

\* An envelope with one covered field changed after signing.
Tamper(envelope, field) ==
    CASE field = "source" -> [envelope EXCEPT !.source = "jason"]
      [] field = "target" -> [envelope EXCEPT !.target = OtherThan(@)]
      [] field = "task_type" -> [envelope EXCEPT !.task_type = "route_envelope"]
      [] field = "payload" -> [envelope EXCEPT !.payload = [kind |-> "object", ref |-> "p2"]]
      [] field = "nonce" -> [envelope EXCEPT !.nonce = @ + 1]
      [] OTHER -> [envelope EXCEPT !.timestamp = @ + 1]

\* relay_payload = {"envelope": envelope} of _send_route_via_hub
Wrapped(inner) == [kind |-> "object", ref |-> "envelope", envelope |-> inner]

\* What kiera sends with route hub for the node after this one: the envelope
\* for that node, wrapped in a route_envelope addressed to this node.
RoutedInner == build_envelope("kiera", OtherThan(profile_name), "skills_checkin",
                              [kind |-> "object", ref |-> "p1"], 3, now)
Routed(nonce) == build_envelope("kiera", profile_name, "route_envelope", Wrapped(RoutedInner),
                                nonce, now)

Request(envelope, original, mode_file) ==
    [envelope |-> envelope, original |-> original, mode_file |-> mode_file]

InboxRequests ==
    {Request(Inbound("kiera", c.target, c.payload, c.nonce, now + c.offset, c.key, c.keys, c.v2),
             Inbound("kiera", c.target, c.payload, c.nonce, now + c.offset, c.key, c.keys, c.v2),
             c.mode_file) : c \in InboundCases}
    \cup {Request(Tamper(build_envelope("kiera", profile_name, "skills_checkin",
                                        [kind |-> "object", ref |-> "p1"], 1, now), f),
                  build_envelope("kiera", profile_name, "skills_checkin",
                                 [kind |-> "object", ref |-> "p1"], 1, now),
                  "missing") : f \in Covered}
    \cup {Request(Routed(n), Routed(n), "missing") : n \in InboundNonces}

InteropInbox ==
    \E r \in InboxRequests :
        interop_inbox(r.envelope, r.original, r.mode_file) /\ UNCHANGED handlerVars

\* A relay request as the hub would get it from kiera for scarlet, and the
\* ways to deviate from it in one respect.
RelayWellFormed ==
    [relayer |-> "kiera", source |-> "kiera", target |-> "scarlet",
     payload |-> [kind |-> "object", ref |-> "p1"], nonce |-> 1, offset |-> 0,
     key |-> SharedKey, mode_file |-> "missing", post |-> "ok"]

RelayCases ==
    {[RelayWellFormed EXCEPT !.relayer = r] : r \in {"kiera", "scarlet"}}
    \cup {[RelayWellFormed EXCEPT !.source = n] : n \in {"jason", KieraPadded}}
    \cup {[RelayWellFormed EXCEPT !.target = t] : t \in Profiles}
    \cup {[RelayWellFormed EXCEPT !.payload = p, !.nonce = n] :
            p \in Payloads, n \in InboundNonces}
    \cup {[RelayWellFormed EXCEPT !.offset = MAX_CLOCK_SKEW_SECONDS + 1],
          [RelayWellFormed EXCEPT !.key = ForeignKey],
          [RelayWellFormed EXCEPT !.mode_file = "strict"]}
    \cup {[RelayWellFormed EXCEPT !.post = o] : o \in PostOutcomes}

ForwardRelay ==
    \E c \in RelayCases :
        /\ forward_relay_envelope(c.relayer,
                                  Inbound(c.source, c.target, c.payload, c.nonce,
                                          now + c.offset, c.key, Required, "absent"),
                                  c.mode_file, c.post)
        /\ UNCHANGED handlerVars

\* The hub node jason with kiera reachable or still a placeholder, and the
\* node scarlet.
InboxDeployments ==
    {[profile |-> "jason", nodes |-> Directory("jason", HubLocal, k)] :
        k \in {KieraLocal, KieraTBD}}
    \cup {[profile |-> "scarlet", nodes |-> Directory("jason", HubLocal, KieraLocal)]}

InboxInit ==
    /\ now = 1
    /\ IdleApprovals
    /\ \E d \in InboxDeployments : profile_name = d.profile /\ nodes_file = d.nodes
    /\ nonces = {}
    /\ messages = <<>>
    /\ last = Idle
    /\ IdleSurface

InboxNext ==
    \/ InteropInbox
    \/ ForwardRelay

InboxSpec == InboxInit /\ [][InboxNext]_vars

\* The inbox of one node over every content of its identity-mode file.
ModeCases ==
    {[WellFormed EXCEPT !.v2 = v, !.key = k, !.nonce = n, !.mode_file = m] :
        v \in {"absent", "valid", "invalid"}, k \in {SharedKey, ForeignKey},
        n \in InboundNonces, m \in ModeContents}

InteropInboxWithFile ==
    \E c \in ModeCases :
        /\ interop_inbox_with_file(
               Inbound("kiera", c.target, c.payload, c.nonce, now, c.key, c.keys, c.v2),
               Inbound("kiera", c.target, c.payload, c.nonce, now, c.key, c.keys, c.v2),
               c.mode_file)
        /\ UNCHANGED handlerVars

ModeNext == InteropInboxWithFile

ModeSpec == InboxInit /\ [][ModeNext]_vars


----------------------------------------------------------------------------
\* Specification of the approval pipeline: a node whose bridge stays idle.

IdleBridge ==
    /\ profile_name = "scarlet"
    /\ nodes_file = [hub_profile |-> "", hosts |-> [p \in Profiles |-> NoHost]]
    /\ nonces = {}
    /\ messages = <<>>

Init ==
    /\ now = 1
    /\ allowed \in {{"tier0"}, {"tier0", "tier1"}, {"tier0", "tier1", "tier2"}}
    /\ approvals = <<>>
    /\ toolInvocations = [i \in ApprovalIds |-> 0]
    /\ IdleBridge
    /\ last = Idle
    /\ IdleSurface

Next ==
    \/ Tick
    \/ Execute
    \/ ExecuteApproved
    \/ Resolve
    \/ MarkExecuted

Spec == Init /\ [][Next]_vars

----------------------------------------------------------------------------
\* The policy engine on its own: check and check_skill_permissions applied to
\* every input, under every permitted set a profile file can declare
\* (core/profile.py refuses an empty allowed_tool_tiers).

MaxRequested == 2

\* Permission names a skill manifest may request: the four risky ones, a
\* harmless one, a near miss of a risky one, and the empty string.
Permissions ==
    {"", "screen", "filesystem_write", "network_external", "secrets_access",
     "filesystem_read", "Screen"}

PermissionLists == UNION {[1..n -> Permissions] : n \in 0..MaxRequested}

\* PolicyEngine.check(tool_name, tier) called on its own.
policy_check(tool_name, tier) ==
    /\ last' = [Idle EXCEPT !.op = "check", !.tool = tool_name, !.tier = tier,
                            !.decision = check(tool_name, tier, allowed).decision,
                            !.reason = check(tool_name, tier, allowed).reason]
    /\ UNCHANGED <<now, approvalVars, bridgeVars>>

\* PolicyEngine.check_skill_permissions(permissions_requested) called on its own.
skill_check(permissions_requested) ==
    /\ last' = [Idle EXCEPT !.op = "check_skill_permissions",
                            !.requested = permissions_requested,
                            !.decision = check_skill_permissions(permissions_requested).decision,
                            !.reason = check_skill_permissions(permissions_requested).reason]
    /\ UNCHANGED <<now, approvalVars, bridgeVars>>

Check ==
    \E t \in ToolNames, tier \in Tiers \cup {"tier3"} : policy_check(t, tier) /\ UNCHANGED handlerVars
CheckSkillPermissions ==
    \E r \in PermissionLists : skill_check(r) /\ UNCHANGED handlerVars

PolicyInit ==
    /\ now = 1
    /\ allowed \in SUBSET Tiers \ {{}}
    /\ approvals = <<>>
    /\ toolInvocations = [i \in ApprovalIds |-> 0]
    /\ IdleBridge
    /\ last = Idle
    /\ IdleSurface

PolicyNext == Check \/ CheckSkillPermissions

PolicySpec == PolicyInit /\ [][PolicyNext]_vars

----------------------------------------------------------------------------
\* Execution of approvals found in the database at start-up.

\* The approval_queue of an earlier run: one row, pending or approved, for a
\* tool this build registers or for one it no longer has, with the payload
\* the POST /tools/execute of that run was given.
StoredApprovals ==
    {<<NewApproval(t, "tier1", p)>> : t \in {"request_email", "retired_tool"}, p \in Payloads}
    \cup {<<[NewApproval(t, "tier1", p) EXCEPT !.status = "approved", !.reviewed_at = 1]>> :
            t \in {"request_email", "retired_tool"}, p \in Payloads}

RecordedInit ==
    /\ now = 1
    /\ allowed = {"tier0", "tier1"}
    /\ approvals \in StoredApprovals
    /\ toolInvocations = [i \in ApprovalIds |-> 0]
    /\ IdleBridge
    /\ last = Idle
    /\ IdleSurface

RecordedNext ==
    \/ ExecuteApproved
    \/ Resolve
    \/ Tick

RecordedSpec == RecordedInit /\ [][RecordedNext]_vars

----------------------------------------------------------------------------
\* core/health/server.py: POST /approvals/{id}/resolve, with the body as the
\* client sent it.  A JSON value is named by its literal.

\* Python's truth test of a decoded JSON value (`if approve`).
truthy(value) == value \notin {"false", "null", "0", "\"\"", "[]", "{}"}

\* int(path.split("/")[2]); None stands for the ValueError.
parse_id(segment) ==
    CASE segment = "1" -> 1
      [] segment = "2" -> 2
      [] OTHER -> None

\* Bodies: nothing, text that is no JSON, a JSON array, and objects without
\* approve or with approve set to a JSON value.
ResolveBodies ==
    {[kind |-> k, ref |-> "absent"] : k \in {"empty", "invalid", "array"}}
    \cup {[kind |-> "object", ref |-> v] :
            v \in {"absent", "true", "false", "null", "0", "1", "\"false\"", "\"\""}}

\* The handler of the route: the id, the body, approve = data.get("approve",
\* False), ApprovalEngine.resolve, the event and the response.  A list has no
\* get: the AttributeError leaves the handler without a response.
post_resolve(segment, body) ==
    LET approval_id == parse_id(segment)
        approve == IF body.ref = "absent" THEN "false" ELSE body.ref
        call == [Idle EXCEPT !.op = "post_resolve", !.payload = body]
    IN
    /\ approvals' = IF approval_id # None /\ body.kind \in {"empty", "object"}
                    THEN resolveUpdate(approvals, approval_id, truthy(approve), now)
                    ELSE approvals
    /\ last' = IF approval_id = None
               THEN [call EXCEPT !.status_code = 400, !.detail = "Invalid approval id"]
               ELSE IF body.kind = "invalid"
               THEN [call EXCEPT !.id = approval_id, !.status_code = 400,
                                 !.detail = "Invalid JSON body"]
               ELSE IF body.kind = "array"
               THEN [call EXCEPT !.id = approval_id, !.raised = "AttributeError"]
               ELSE IF resolveMatches(approvals, approval_id)
               THEN [call EXCEPT !.id = approval_id, !.ok = TRUE, !.status_code = 200,
                                 !.events = <<Event("approval_resolved", "", "allow")>>]
               ELSE [call EXCEPT !.id = approval_id, !.status_code = 404]
    /\ UNCHANGED <<now, allowed, toolInvocations, bridgeVars, handlerVars>>

PostResolve ==
    \E segment \in {"1", "2", "abc"}, body \in ResolveBodies : post_resolve(segment, body)

ResolveEndpointNext ==
    \/ PostResolve
    \/ ExecuteApproved
    \/ Tick

ResolveEndpointSpec == RecordedInit /\ [][ResolveEndpointNext]_vars

----------------------------------------------------------------------------
\* The check-in loop of the node scarlet, whose peers are jason and kiera.

MaxWakes == 2

\* What the POSTs of one wake do, per peer.
CheckinEnvs ==
    [Profiles \ {profile_name} ->
        {[direct |-> d, via_hub |-> h] : d \in {"ok", "URLError", "TimeoutError"},
                                        h \in {"ok", "URLError"}}]

\* The loop turns MaxWakes times in a row.
DailySkillsCheckin ==
    \E env \in CheckinEnvs :
        /\ now % DAILY_INTERVAL_SECONDS < 1 + MaxWakes * WAKE_SECONDS
        /\ daily_skills_checkin_loop(env)

\* The rest of a day passes with the loop asleep (its sleep takes as long as
\* the host lets it: a suspended host wakes it late).
DayPasses ==
    /\ now < DAILY_INTERVAL_SECONDS
    /\ now' = now + DAILY_INTERVAL_SECONDS
    /\ UNCHANGED <<approvalVars, bridgeVars, last, handlerVars>>

CheckinInit ==
    /\ now = 1
    /\ IdleApprovals
    /\ \E d \in {e \in Deployments : e.profile = "scarlet"} :
           profile_name = d.profile /\ nodes_file = d.nodes
    /\ nonces = {}
    /\ messages = <<>>
    /\ last = Idle
    /\ IdleSurface

CheckinNext == DailySkillsCheckin \/ DayPasses

CheckinSpec == CheckinInit /\ [][CheckinNext]_vars

\* The check-in thread step by step, with SIGINT/SIGTERM arriving at any
\* point: the test of `while running`, the call of the round, the sleep of
\* 3600 naps of one second with its own test of the flag.

\* Mutant: a loop that never looks at the flag (while True).
keeps_running_Always(running) == TRUE

\* while running:
keeps_running(running) == running

loop_test ==
    /\ scheduler.pc = "test"
    /\ scheduler' = [scheduler EXCEPT
                       !.pc = IF keeps_running(scheduler.running) THEN "call" ELSE "ended"]
    /\ UNCHANGED <<now, approvalVars, bridgeVars, last, configVars, http, threads, connection>>

\* The round: send_daily_skills_checkins and its events.  An exception the
\* loop does not catch ends the thread.
loop_call(env) ==
    /\ scheduler.pc = "call"
    /\ scheduler.running => now < 1 + MaxWakes * WAKE_SECONDS
    /\ checkin_round(env)
    /\ scheduler' = [scheduler EXCEPT
                       !.pc = IF last'.raised # "none" THEN "ended" ELSE "sleep",
                       !.slept = 0,
                       !.late_rounds = IF scheduler.running THEN @ ELSE @ + 1]
    /\ UNCHANGED <<now, approvalVars, profile_name, nodes_file, nonces, configVars, http,
                   threads, connection>>

\* for _ in range(3600): if not running: break; time.sleep(1)
loop_sleep ==
    /\ scheduler.pc = "sleep"
    /\ IF scheduler.slept = WAKE_SECONDS \/ ~scheduler.running
       THEN /\ scheduler' = [scheduler EXCEPT !.pc = "test"]
            /\ UNCHANGED now
       ELSE /\ scheduler' = [scheduler EXCEPT !.slept = @ + 1]
            /\ now' = now + 1
    /\ UNCHANGED <<approvalVars, bridgeVars, last, configVars, http, threads, connection>>

\* handle_shutdown: running = False.
handle_shutdown ==
    /\ scheduler.running
    /\ scheduler' = [scheduler EXCEPT !.running = FALSE]
    /\ UNCHANGED <<now, approvalVars, bridgeVars, last, configVars, http, threads, connection>>

\* What the POSTs of a round do: every one answers, or every one is refused.
ShutdownEnvs ==
    {[p \in Profiles \ {profile_name} |-> [direct |-> o, via_hub |-> o]] :
        o \in {"ok", "URLError"}}

LoopCall == \E env \in ShutdownEnvs : loop_call(env)

ShutdownNext ==
    \/ loop_test
    \/ LoopCall
    \/ loop_sleep
    \/ handle_shutdown

\* The check-in thread is scheduled, a send in flight returns and a nap ends.
ShutdownSpec ==
    /\ CheckinInit
    /\ [][ShutdownNext]_vars
    /\ WF_vars(loop_test)
    /\ WF_vars(LoopCall)
    /\ WF_vars(loop_sleep)

----------------------------------------------------------------------------
\* Every writer of the message log on one node: the inbox, the relay, send_task
\* and the check-in loop.

LogInbox ==
    \E n \in InboundNonces, k \in {SharedKey, ForeignKey} :
        LET envelope == Inbound("kiera", profile_name, [kind |-> "object", ref |-> "p1"],
                                n, now, k, Required, "absent")
        IN interop_inbox(envelope, envelope, "missing") /\ UNCHANGED handlerVars

LogRelay ==
    \E post \in {"ok", "URLError"} :
        /\ forward_relay_envelope("kiera",
                                  Inbound("kiera", "scarlet", [kind |-> "object", ref |-> "p1"],
                                          1, now, SharedKey, Required, "absent"),
                                  "missing", post)
        /\ UNCHANGED handlerVars

LogSend ==
    \E direct \in {"ok", "URLError"} :
        /\ send_task("kiera", "skills_checkin", [kind |-> "object", ref |-> "p1"], "auto",
                     direct, "ok")
        /\ UNCHANGED handlerVars

LogInit ==
    /\ now = 1
    /\ IdleApprovals
    /\ profile_name = "jason"
    /\ nodes_file = Directory("jason", HubLocal, KieraLocal)
    /\ nonces = {}
    /\ messages = <<>>
    /\ last = Idle
    /\ IdleSurface

LogNext ==
    \/ LogInbox
    \/ LogRelay
    \/ LogSend
    \/ DailySkillsCheckin

LogSpec == LogInit /\ [][LogNext]_vars

----------------------------------------------------------------------------
\* Two requests served at the same time.  The handler threads share one
\* sqlite3 connection (check_same_thread = False) and take no lock; the
\* connection runs one statement at a time, so a step is one statement (or
\* one tool run) together with the thread's own computation around it.

Finished(t, ok, raised, detail) ==
    [threads EXCEPT ![t].pc = "done", ![t].ok = ok, ![t].raised = raised,
                    ![t].detail = detail]

\* receive_envelope, step 1: the checks of _validate_envelope ahead of the
\* replay lookup.
receive_validate(t, envelope, mode_file) ==
    LET err == validation_error(envelope, profile_name, now, identity_mode(mode_file))
        call == [threads EXCEPT ![t] = [IdleThread EXCEPT !.envelope = envelope]]
    IN
    /\ threads[t].pc = "idle"
    /\ threads' = IF err # ""
                  THEN [call EXCEPT ![t].pc = "done", ![t].raised = "RuntimeError",
                                    ![t].detail = err]
                  ELSE [call EXCEPT ![t].pc = "validated"]
    /\ UNCHANGED <<now, approvalVars, bridgeVars, last, configVars, http, connection, scheduler>>

\* receive_envelope, step 2: _is_replay, the SELECT on the ledger.
receive_is_replay(t) ==
    /\ threads[t].pc = "validated"
    /\ threads' = IF is_replay(nonces, threads[t].envelope.nonce)
                  THEN Finished(t, FALSE, "RuntimeError", "Replay detected: nonce already seen")
                  ELSE [threads EXCEPT ![t].pc = "fresh"]
    /\ UNCHANGED <<now, approvalVars, bridgeVars, last, configVars, http, connection, scheduler>>

\* receive_envelope, step 3: _record_nonce, the INSERT and its commit, then
\* the descriptor _validate_envelope returns (dict(payload) raises on a
\* payload that is no object).
receive_record_nonce(t) ==
    LET envelope == threads[t].envelope IN
    /\ threads[t].pc = "fresh"
    /\ IF nonce_conflict(nonces, envelope.nonce)
       THEN /\ threads' = Finished(t, FALSE, "IntegrityError", "")
            /\ UNCHANGED nonces
       ELSE /\ nonces' = nonces \cup
                            {NonceRow(envelope.nonce, envelope.source, envelope.target)}
            /\ threads' = IF envelope.payload.kind # "object"
                          THEN Finished(t, FALSE, "TypeError", "")
                          ELSE [threads EXCEPT ![t].pc = "recorded"]
    /\ UNCHANGED <<now, approvalVars, profile_name, nodes_file, messages, last,
                   configVars, http, connection, scheduler>>

\* receive_envelope, step 4: _record_message and the return of accepted.
receive_record_message(t) ==
    LET envelope == threads[t].envelope IN
    /\ threads[t].pc = "recorded"
    /\ messages' = record_message(messages, "inbox", envelope.source, envelope.target,
                                  envelope.task_type, envelope.payload, envelope.nonce,
                                  Status("received", "", NoCause))
    /\ threads' = Finished(t, TRUE, "none", "accepted")
    /\ UNCHANGED <<now, approvalVars, profile_name, nodes_file, nonces, last,
                   configVars, http, connection, scheduler>>

\* The envelopes of the race: validly signed for this node by kiera and by
\* scarlet under either nonce, with an object or a number as payload, and one
\* signed under a foreign key.
RaceEnvelopes ==
    {Inbound(src, profile_name, p, n, now, SharedKey, Required, "absent") :
        src \in {"kiera", "scarlet"}, p \in Payloads, n \in InboundNonces}
    \cup {Inbound("kiera", profile_name, [kind |-> "object", ref |-> "p1"], 1, now,
                  ForeignKey, Required, "absent")}

ReceiveValidate ==
    \E t \in Threads, e \in RaceEnvelopes : receive_validate(t, e, "missing")
ReceiveIsReplay == \E t \in Threads : receive_is_replay(t)
ReceiveRecordNonce == \E t \in Threads : receive_record_nonce(t)
ReceiveRecordMessage == \E t \in Threads : receive_record_message(t)

RaceInboxNext ==
    \/ ReceiveValidate
    \/ ReceiveIsReplay
    \/ ReceiveRecordNonce
    \/ ReceiveRecordMessage

RaceInboxSpec == LogInit /\ [][RaceInboxNext]_vars

\* One send_task call of kiera for this node, scarlet, whose envelope reaches
\* the node twice: by the direct POST, whose response kiera never got, and by
\* the fallback through the hub.  Thread t1 serves the direct POST, thread t2
\* the POST of the hub's forward_relay_envelope, in any order and overlap.

\* Mutant: a hub route that builds the envelope anew, under a nonce of its own.
hub_arrival_Rebuilt(envelope) ==
    build_envelope(envelope.source, envelope.target, envelope.task_type, envelope.payload,
                   envelope.nonce + 2, envelope.timestamp)

\* What reaches the target through the hub: _send_route_via_hub wraps the
\* envelope of send_task as it is, forward_relay_envelope POSTs the inner
\* envelope as it is.
hub_arrival(envelope) == Wrapped(envelope).envelope

\* The envelopes send_task can have built (build_envelope: a fresh nonce, the
\* caller's payload).
SentEnvelopes ==
    {build_envelope("kiera", "scarlet", "skills_checkin", p, n, 1) :
        p \in Payloads, n \in InboundNonces}

ArriveDirect ==
    /\ last.op = "send_task"
    /\ receive_validate("t1", last.envelope, "missing")

ArriveViaHub ==
    /\ last.op = "send_task"
    /\ receive_validate("t2", hub_arrival(last.envelope), "missing")

RouteInit ==
    /\ now = 1
    /\ IdleApprovals
    /\ profile_name = "scarlet"
    /\ nodes_file = Directory("jason", HubLocal, KieraLocal)
    /\ nonces = {}
    /\ messages = <<>>
    /\ \E e \in SentEnvelopes :
          last = [Idle EXCEPT !.op = "send_task", !.envelope = e, !.nonce = e.nonce]
    /\ IdleSurface

RouteNext ==
    \/ ArriveDirect
    \/ ArriveViaHub
    \/ ReceiveIsReplay
    \/ ReceiveRecordNonce
    \/ ReceiveRecordMessage
    \/ Tick

RouteSpec == RouteInit /\ [][RouteNext]_vars

\* execute_approved, step 1: ApprovalEngine.get and the tests on the row it
\* returned.
approved_get(t, approval_id) ==
    LET call == [threads EXCEPT ![t] = [IdleThread EXCEPT !.id = approval_id]]
        done(ok, raised, detail) ==
            [call EXCEPT ![t].pc = "done", ![t].ok = ok, ![t].raised = raised,
                         ![t].detail = detail]
    IN
    /\ threads[t].pc \in {"idle", "done"}
    /\ threads' =
          IF ~Exists(approvals, approval_id) THEN done(FALSE, "none", "Approval not found")
          ELSE IF ~isApproved(approvals[approval_id])
          THEN done(FALSE, "none", "is not approved")
          ELSE IF approvals[approval_id].execution_status = "executed"
          THEN done(TRUE, "none", "already_executed")
          ELSE IF approvals[approval_id].payload.kind # "object"
          THEN done(FALSE, "TypeError", "")
          ELSE IF approvals[approval_id].tool_name \notin RegisteredTools
          THEN done(FALSE, "none", "Unknown tool")
          ELSE [call EXCEPT ![t].pc = "loaded"]
    /\ UNCHANGED <<now, approvalVars, bridgeVars, last, configVars, http, connection, scheduler>>

\* execute_approved, step 2: tool.execute(payload); outcome is what the tool does.
approved_run(t, outcome) ==
    /\ threads[t].pc = "loaded"
    /\ toolInvocations[threads[t].id] < MaxInvocations
    /\ toolInvocations' = [toolInvocations EXCEPT ![threads[t].id] = @ + 1]
    /\ threads' = IF outcome = "raise"
                  THEN Finished(t, FALSE, "ToolError", "")
                  ELSE [threads EXCEPT ![t].pc = "ran", ![t].outcome = outcome]
    /\ UNCHANGED <<now, allowed, approvals, bridgeVars, last, configVars, http, connection, scheduler>>

\* execute_approved, step 3: mark_executed, the event, the return.
approved_mark(t) ==
    LET approval_id == threads[t].id
        result == ToolResult(threads[t].outcome)
    IN
    /\ threads[t].pc = "ran"
    /\ approvals' = markExecutedUpdate(approvals, approval_id, result, now)
    /\ threads' = [Finished(t, result.ok, "none", result.output)
                     EXCEPT ![t].persisted = markExecutedMatches(approvals, approval_id)]
    /\ UNCHANGED <<now, allowed, toolInvocations, bridgeVars, last, configVars, http, connection, scheduler>>

ApprovedGet == \E t \in Threads, i \in ApprovalIds : approved_get(t, i)
\* The tool of the race returns; a tool that raises is run again by the next
\* call even without a race.
ApprovedRun == \E t \in Threads, o \in {"ok", "fail"} : approved_run(t, o)
ApprovedMark == \E t \in Threads : approved_mark(t)

\* An approval of request_email that a reviewer has approved and nobody has
\* executed yet (enqueue, then resolve).
RaceExecuteInit ==
    /\ now = 1
    /\ allowed = {"tier0", "tier1", "tier2"}
    /\ approvals = <<[NewApproval("request_email", "tier1", [kind |-> "object", ref |-> "p1"])
                        EXCEPT !.status = "approved", !.reviewed_at = 1]>>
    /\ toolInvocations = [i \in ApprovalIds |-> 0]
    /\ IdleBridge
    /\ last = Idle
    /\ IdleSurface

RaceExecuteNext ==
    \/ ApprovedGet
    \/ ApprovedRun
    \/ ApprovedMark

RaceExecuteSpec == RaceExecuteInit /\ [][RaceExecuteNext]_vars

\* POST /approvals/{id}/resolve served by two threads.  ApprovalEngine.resolve
\* is two calls on the shared connection, execute(UPDATE) and commit(), and
\* the sqlite3 module does each in several steps of its own: execute opens a
\* transaction when it finds none open, runs the statement, then reads the
\* connection's change counter into cursor.rowcount; commit issues COMMIT when
\* it finds a transaction open.  Nothing keeps another thread off the
\* connection between those steps.

\* Step 1: the handler reads the id and the body, resolve calls execute, and
\* execute looks whether a transaction is open.
resolve_request(t, approval_id, approve) ==
    /\ threads[t].pc = "idle"
    /\ threads' = [threads EXCEPT ![t] = [IdleThread EXCEPT
                      !.pc = IF connection.in_transaction THEN "update" ELSE "begin",
                      !.id = approval_id, !.approve = approve]]
    /\ UNCHANGED <<now, approvalVars, bridgeVars, last, configVars, http, connection, scheduler>>

\* Step 2: the implicit BEGIN.
resolve_begin(t) ==
    /\ threads[t].pc = "begin"
    /\ IF connection.in_transaction
       THEN /\ threads' = Finished(t, FALSE, "OperationalError",
                                   "cannot start a transaction within a transaction")
            /\ UNCHANGED connection
       ELSE /\ threads' = [threads EXCEPT ![t].pc = "update"]
            /\ connection' = [connection EXCEPT !.in_transaction = TRUE]
    /\ UNCHANGED <<now, approvalVars, bridgeVars, last, configVars, http, scheduler>>

\* Step 3: the UPDATE runs; the connection counts the rows it changed.
resolve_update(t) ==
    /\ threads[t].pc = "update"
    /\ approvals' = resolveUpdate(approvals, threads[t].id, threads[t].approve, now)
    /\ connection' = [connection EXCEPT
                        !.changes = IF resolveMatches(approvals, threads[t].id) THEN 1 ELSE 0]
    /\ threads' = [threads EXCEPT ![t].pc = "rowcount"]
    /\ UNCHANGED <<now, allowed, toolInvocations, bridgeVars, last, configVars, http, scheduler>>

\* Step 4: execute reads the connection's counter into cursor.rowcount, the
\* value resolve returns.
resolve_rowcount(t) ==
    /\ threads[t].pc = "rowcount"
    /\ threads' = [threads EXCEPT ![t].pc = "commit", ![t].ok = connection.changes > 0]
    /\ UNCHANGED <<now, approvalVars, bridgeVars, last, configVars, http, connection, scheduler>>

\* Step 5: commit looks whether a transaction is open; with none open it
\* returns at once and the handler answers 200 or 404.
resolve_commit_check(t) ==
    /\ threads[t].pc = "commit"
    /\ threads' = IF connection.in_transaction
                  THEN [threads EXCEPT ![t].pc = "committing"]
                  ELSE Finished(t, threads[t].ok, "none", "")
    /\ UNCHANGED <<now, approvalVars, bridgeVars, last, configVars, http, connection, scheduler>>

\* Step 6: the COMMIT, then the handler's answer.
resolve_commit(t) ==
    /\ threads[t].pc = "committing"
    /\ IF connection.in_transaction
       THEN /\ threads' = Finished(t, threads[t].ok, "none", "")
            /\ connection' = [connection EXCEPT !.in_transaction = FALSE]
       ELSE /\ threads' = Finished(t, FALSE, "OperationalError",
                                   "cannot commit - no transaction is active")
            /\ UNCHANGED connection
    /\ UNCHANGED <<now, approvalVars, bridgeVars, last, configVars, http, scheduler>>

ResolveRequest ==
    \E t \in Threads, i \in ApprovalIds, a \in BOOLEAN : resolve_request(t, i, a)
ResolveBegin == \E t \in Threads : resolve_begin(t)
ResolveUpdate == \E t \in Threads : resolve_update(t)
ResolveRowcount == \E t \in Threads : resolve_rowcount(t)
ResolveCommitCheck == \E t \in Threads : resolve_commit_check(t)
ResolveCommit == \E t \in Threads : resolve_commit(t)

\* One approval waits for its reviewer (enqueue).
RaceResolveInit ==
    /\ now = 1
    /\ allowed = {"tier0", "tier1", "tier2"}
    /\ approvals = <<NewApproval("request_email", "tier1", [kind |-> "object", ref |-> "p1"])>>
    /\ toolInvocations = [i \in ApprovalIds |-> 0]
    /\ IdleBridge
    /\ last = Idle
    /\ IdleSurface

RaceResolveNext ==
    \/ ResolveRequest
    \/ ResolveBegin
    \/ ResolveUpdate
    \/ ResolveRowcount
    \/ ResolveCommitCheck
    \/ ResolveCommit

RaceResolveSpec == RaceResolveInit /\ [][RaceResolveNext]_vars

----------------------------------------------------------------------------
\* core/health/server.py: the HTTP control surface.

\* HealthServer.__init__: the allowlist is the configured list, or the
\* built-in one when the configured list is empty (`list or [...]`).
DefaultGetEndpoints ==
    {"/health", "/status", "/api-usage", "/backup/status", "/dashboard", "/dashboard/data"}

effective_get_endpoints(configured) ==
    IF configured = {} THEN DefaultGetEndpoints ELSE configured

\* The paths do_GET serves.
GetRoutes ==
    {"/health", "/status", "/approvals", "/logs", "/api-usage", "/backup/status",
     "/fleet/status", "/interop/messages", "/dashboard", "/dashboard/data"}

Response(method, path, status_code) ==
    [NoRequest EXCEPT !.method = method, !.path = path, !.status_code = status_code]

\* What a request did to the stores, as the response of a served route:
\* tables changed, episodic events appended, a tool run.
Served(path, status_code, own_events) ==
    [method |-> "POST", path |-> path, status_code |-> status_code,
     changed |-> <<approvals', toolInvocations', nonces', messages'>>
                    # <<approvals, toolInvocations, nonces, messages>>,
     events |-> Len(last'.events) + own_events,
     invoked |-> last'.invoked]

\* Handler.do_GET(path); window_days is the query parameter of /api-usage.
\* Every route of do_GET only reads.
do_GET(path, window_days) ==
    /\ http' = Response("GET", path,
                  IF public_readonly_mode
                     /\ path \notin effective_get_endpoints(public_readonly_get_endpoints)
                  THEN 403
                  ELSE IF path = "/api-usage" /\ window_days = "abc" THEN 400
                  ELSE IF path \in GetRoutes THEN 200
                  ELSE 404)
    /\ UNCHANGED <<now, approvalVars, bridgeVars, last, configVars, threads, connection, scheduler>>

\* Handler.do_POST(path) with the JSON body r.  A call that raises leaves the
\* handler before it writes a response (status_code 0).
do_POST(path, r) ==
    /\ UNCHANGED <<configVars, threads, connection, scheduler>>
    /\ IF public_readonly_mode
       THEN /\ http' = Response("POST", path, 403)
            /\ UNCHANGED <<now, approvalVars, bridgeVars, last>>
       ELSE IF path = "/tools/execute"
       THEN IF r.tool_name = ""
            THEN /\ http' = Response("POST", path, 400)
                 /\ UNCHANGED <<now, approvalVars, bridgeVars, last>>
            ELSE /\ execute(r.tool_name, r.payload, r.outcome)
                 /\ http' = Served(path, CASE last'.raised # "none" -> 0
                                            [] last'.ok -> 200
                                            [] OTHER -> 400, 0)
       ELSE IF path = "/approvals/<id>/resolve"
       THEN /\ resolve(r.approval_id, r.approve)
            /\ http' = IF last'.ok THEN Served(path, 200, 1) ELSE Served(path, 404, 0)
       ELSE IF path = "/approvals/<id>/execute"
       THEN /\ execute_approved(r.approval_id, r.outcome)
            /\ http' = IF last'.raised # "none" THEN Served(path, 0, 0)
                       ELSE Served(path, IF last'.ok THEN 200 ELSE 400, 1)
       ELSE IF path = "/fleet/deploy"
       THEN /\ http' = [Response("POST", path, IF r.approve THEN 200 ELSE 500)
                          EXCEPT !.events = 1]
            /\ UNCHANGED <<now, approvalVars, bridgeVars, last>>
       ELSE IF path = "/interop/inbox"
       THEN /\ interop_inbox(r.envelope, r.envelope, r.mode_file)
            /\ http' = Served(path, last'.status_code, 0)
       ELSE /\ http' = Response("POST", path, 404)
            /\ UNCHANGED <<now, approvalVars, bridgeVars, last>>

\* The requests of the control surface.
GetPaths == GetRoutes \cup {"/health/", "/nowhere"}

PostPaths ==
    {"/tools/execute", "/approvals/<id>/resolve", "/approvals/<id>/execute",
     "/fleet/deploy", "/interop/inbox", "/nowhere"}

\* The body of a POST: the fields each route reads from it.
Bodies ==
    {[tool_name |-> t, payload |-> [kind |-> "object", ref |-> "p1"], outcome |-> o,
      approval_id |-> i, approve |-> a,
      envelope |-> Inbound("kiera", profile_name, [kind |-> "object", ref |-> "p1"], n,
                           now, k, Required, "absent"),
      mode_file |-> "missing"] :
        t \in {"", "get_time", "request_email"}, o \in {"ok", "raise"},
        i \in 1..MaxApprovals, a \in BOOLEAN, n \in {1}, k \in {SharedKey, ForeignKey}}

DoGet == \E path \in GetPaths, w \in {"", "7", "abc"} : do_GET(path, w)
DoPost == \E path \in PostPaths, r \in Bodies : do_POST(path, r)

\* The allowlists a profile file can configure: the key left out (the profile
\* defaults), a list of its own, the empty list.
ConfiguredEndpoints == {ProfileDefaultEndpoints, {"/health"}, {}}

SurfaceInit ==
    /\ now = 1
    /\ IdleApprovals
    /\ profile_name = "jason"
    /\ nodes_file \in {n \in NodesFiles : n.hub_profile = "jason" /\ n.hosts["jason"] = HubLocal}
    /\ nonces = {}
    /\ messages = <<>>
    /\ last = Idle
    /\ public_readonly_mode \in BOOLEAN
    /\ public_readonly_get_endpoints \in ConfiguredEndpoints
    /\ http = NoRequest
    /\ threads = [t \in Threads |-> IdleThread]
    /\ connection = IdleConnection
    /\ scheduler = IdleScheduler

SurfaceNext == DoGet \/ DoPost

SurfaceSpec == SurfaceInit /\ [][SurfaceNext]_vars

----------------------------------------------------------------------------
\* Claims about the inbound path of the bridge.

ValidationErrors ==
    {"Envelope missing fields", "Envelope target mismatch",
     "Envelope timestamp outside allowed skew window", "Envelope signature invalid",
     "Envelope identity signature invalid or missing (strict mode)",
     "Envelope identity signature invalid (provenance mode)"}

\* The nonces of the inbox rows of a log.
InboxNonces(log) == {log[i].nonce : i \in {j \in 1..Len(log) : log[j].direction = "inbox"}}

\* The inbox rows that carried nonce n before the most recent call.
AcceptedBefore(n) ==
    Cardinality({i \in 1..(Len(messages) - last.appended) :
                    messages[i].direction = "inbox" /\ messages[i].nonce = n})

\* C1: once an envelope carrying nonce N has been accepted, every later
\* receive_envelope call with an otherwise valid envelope carrying N is
\* rejected with the error "Replay detected", and that call adds no inbox
\* row and no row to the nonce ledger.
C1_ReplayRejected ==
    (/\ last.op = "receive_envelope"
     /\ last.detail \notin ValidationErrors
     /\ AcceptedBefore(last.nonce) >= 1)
    => /\ last.raised = "RuntimeError"
       /\ last.detail = "Replay detected: nonce already seen"
       /\ last.appended = 0
       /\ last.ledger_rows = 0
       /\ AcceptedBefore(last.nonce) = 1

\* An envelope whose nonce already has an inbox row was just turned away as
\* a replay.
C1_Witness ==
    /\ last.op = "receive_envelope"
    /\ last.raised = "RuntimeError"
    /\ last.detail = "Replay detected: nonce already seen"
    /\ last.nonce \in InboxNonces(messages)

\* C2: in every reachable state a nonce is in the nonce ledger if and only
\* if an inbox row with that nonce exists.
C2_LedgerMatchesInbox ==
    {r.nonce : r \in nonces} = InboxNonces(messages)

----------------------------------------------------------------------------
\* Claims about the approval pipeline.

GatedTiers == {"tier1", "tier2"}

\* C3: a tier-1 or tier-2 tool is invoked only by execute_approved, for an
\* approval row of that very tool whose status is approved; execute never
\* invokes such a tool, and no tool ever ran for a pending or rejected approval.
C3_GatedInvocation ==
    /\ (last.invoked /\ TierOf(last.tool) \in GatedTiers) =>
          /\ last.op = "execute_approved"
          /\ Exists(approvals, last.id)
          /\ approvals[last.id].tool_name = last.tool
          /\ approvals[last.id].status = "approved"
    /\ \A i \in ApprovalIds :
          toolInvocations[i] > 0 => Exists(approvals, i) /\ approvals[i].status = "approved"

C3_Witness ==
    /\ last.op = "execute_approved"
    /\ last.invoked
    /\ TierOf(last.tool) = "tier2"

\* C4: a row is inserted with status pending, rows are never removed, and a
\* status changes only from pending, to approved or to rejected (hence at
\* most once).
C4_StatusLifecycle ==
    [][/\ Len(approvals') >= Len(approvals)
       /\ \A i \in 1..Len(approvals') :
            IF i > Len(approvals)
            THEN approvals'[i].status = "pending"
            ELSE approvals'[i].status # approvals[i].status =>
                    /\ approvals[i].status = "pending"
                    /\ approvals'[i].status \in {"approved", "rejected"}]_vars

\* A second resolve, with the opposite decision, came back false.
C4_Witness ==
    /\ last.op = "resolve"
    /\ ~last.ok
    /\ Exists(approvals, last.id)
    /\ approvals[last.id].status = "rejected"

\* C5: an executed row is an approved row, and execution_status changes only
\* from not_executed to executed.
C5_ExecutionLifecycle ==
    /\ [](\A i \in 1..Len(approvals) :
            approvals[i].execution_status = "executed" => approvals[i].status = "approved")
    /\ [][\A i \in 1..Len(approvals) :
            approvals'[i].execution_status # approvals[i].execution_status =>
               /\ approvals[i].execution_status = "not_executed"
               /\ approvals'[i].execution_status = "executed"]_vars

C5_Witness ==
    \E i \in 1..Len(approvals) :
        /\ approvals[i].execution_status = "executed"
        /\ last.op = "mark_executed"
        /\ ~last.ok

\* C6: resolve on a row that is not pending (or does not exist) returns false
\* and leaves status and reviewed_at alone; mark_executed on a row that is not
\* approved, or already executed (or does not exist), returns false and leaves
\* execution_status, executed_at and execution_result alone.
C6_Exclusivity ==
    [][/\ \A i \in ApprovalIds, a \in BOOLEAN :
            (resolve(i, a) /\ ~(Exists(approvals, i) /\ approvals[i].status = "pending")) =>
               /\ ~last'.ok
               /\ \A j \in 1..Len(approvals) :
                     /\ approvals'[j].status = approvals[j].status
                     /\ approvals'[j].reviewed_at = approvals[j].reviewed_at
       /\ \A i \in ApprovalIds, o \in {"ok", "fail"} :
            (/\ mark_executed(i, ToolResult(o))
             /\ ~(/\ Exists(approvals, i)
                  /\ approvals[i].status = "approved"
                  /\ approvals[i].execution_status = "not_executed")) =>
               /\ ~last'.ok
               /\ \A j \in 1..Len(approvals) :
                     /\ approvals'[j].execution_status = approvals[j].execution_status
                     /\ approvals'[j].executed_at = approvals[j].executed_at
                     /\ approvals'[j].execution_result = approvals[j].execution_result]_vars

\* mark_executed came back false on a row executed at an earlier time.
C6_Witness ==
    /\ last.op = "mark_executed"
    /\ ~last.ok
    /\ Exists(approvals, last.id)
    /\ approvals[last.id].execution_status = "executed"
    /\ approvals[last.id].executed_at < now

\* C7: when execute_approved(id) is called on an approved, not yet executed
\* approval and then called again, the first call invokes the tool and the
\* second does not: it returns ok = true with already_executed = true.
C7_IdempotentExecute ==
    [][\A i \in ApprovalIds, o \in ToolOutcomes :
          (/\ execute_approved(i, o)
           /\ last.op = "execute_approved"
           /\ last.id = i
           /\ last.detail # "already_executed"
           /\ Exists(approvals, i)
           /\ approvals[i].status = "approved") =>
             /\ last.invoked
             /\ toolInvocations'[i] = toolInvocations[i]
             /\ ~last'.invoked
             /\ last'.ok
             /\ last'.detail = "already_executed"]_vars

----------------------------------------------------------------------------
\* Claims about the outbound path of the bridge.

\* The row the most recent call appended.
LastRow == messages[Len(messages)]

\* The most recent call was send_task to a target it may send to.
SentToConfigured ==
    /\ last.op = "send_task"
    /\ last.target \in configured_targets(profile_name, nodes_file)

\* The most recent call was send_task with route auto whose direct POST
\* failed with a transport error.
AutoDirectFailed ==
    /\ SentToConfigured
    /\ last.route = "auto"
    /\ last.direct = "URLError"

TargetHost == nodes_file.hosts[last.target]
Hub == routing_hub_profile(profile_name, nodes_file)

\* C8: every call to send_task, whatever its outcome, appends exactly one
\* outbox row, whose status is sent, sent:routed:<hub> or failed:<reason>.
C8_OutboxAccounting ==
    SentToConfigured
    => /\ last.appended = 1
       /\ LastRow.direction = "outbox"
       /\ LastRow.status.kind \in {"sent", "sent:routed", "failed"}

C10_FallbackFailureSurfacesOriginal ==
    (/\ AutoDirectFailed
     /\ \/ hub_route_error(profile_name, nodes_file) # ""
        \/ last.target # Hub /\ last.via_hub = "URLError")
    => /\ last.raised = "RuntimeError"
       /\ last.cause = Exc("URLError", TargetHost)
       /\ last.appended = 1
       /\ LastRow.direction = "outbox"
       /\ LastRow.status = Status("failed", "", Exc("URLError", TargetHost))

\* The POSTs of the most recent call that carried a route_envelope to the hub.
HubAttempted == \E i \in 1..Len(last.posts) : last.posts[i].task_type = "route_envelope"

\* The most recent call POSTed the envelope itself to its target and failed.
DirectFailed ==
    \E i \in 1..Len(last.posts) :
        last.posts[i].task_type # "route_envelope" /\ last.posts[i].outcome # "ok"

\* A routing hub is named, is another node, and has a usable host.
HubUsable ==
    /\ Hub \in Profiles \ {profile_name}
    /\ nodes_file.hosts[Hub] # <<>>
    /\ ~(Len(nodes_file.hosts[Hub]) >= 2
         /\ nodes_file.hosts[Hub][Len(nodes_file.hosts[Hub])] = "TBD")

\* With route direct no POST goes to the hub; with route auto and the hub as
\* target a direct failure gives one failed row and an error, no second POST.
NoFallbackCases ==
    /\ last.route = "direct" => ~HubAttempted
    /\ (last.route = "auto" /\ DirectFailed /\ last.target = Hub)
       => /\ Len(last.posts) = 1
          /\ last.raised = "RuntimeError"
          /\ last.appended = 1
          /\ LastRow.direction = "outbox"
          /\ LastRow.status.kind = "failed"

\* C11: within a send_task call with route auto, a POST to the hub is
\* attempted if and only if the direct POST failed and the target is not the
\* routing hub (a routing hub other than this node, with a usable host, being
\* configured); route direct never POSTs to the hub; with the hub as target a
\* direct failure gives one failed row and an error, no second POST.
C11_HubAttemptedIffDirectFailed ==
    last.op = "send_task"
    => /\ last.route = "auto"
          => (HubAttempted <=> DirectFailed /\ last.target # Hub /\ HubUsable)
       /\ NoFallbackCases

\* The host is empty (or the peer has no entry), or it ends in .TBD.
UnconfiguredHost(h) == h = <<>> \/ (Len(h) >= 2 /\ h[Len(h)] = "TBD")

\* C12: send_task to a target that is absent from the directory or whose
\* host is empty or ends in .TBD fails with an error before any POST is made
\* and before any row is written; a peer with a non-empty host that does not
\* end in .TBD is resolvable as a target.
C12_UnconfiguredTarget ==
    last.op = "send_task"
    => /\ UnconfiguredHost(nodes_file.hosts[last.target])
          => /\ last.raised = "RuntimeError"
             /\ last.detail = "Target not allowlisted/configured"
             /\ last.posts = <<>>
             /\ last.appended = 0
       /\ (last.target # profile_name /\ ~UnconfiguredHost(nodes_file.hosts[last.target]))
          => last.detail # "Target not allowlisted/configured"

\* A send to a peer whose host is a .TBD placeholder was refused.
C12_Witness ==
    /\ last.op = "send_task"
    /\ nodes_file.hosts[last.target] = KieraTBD
    /\ last.raised = "RuntimeError"
    /\ last.detail = "Target not allowlisted/configured"
    /\ last.posts = <<>>

----------------------------------------------------------------------------
\* Claims about relaying.

RelayCall == last.op = "forward_relay_envelope"

\* C13: forward_relay_envelope(relayer_source, inner_envelope) with an
\* inner source other than relayer_source raises an error before any POST,
\* appends no relay row and inserts no nonce.
C13_RelaySourceBinding ==
    (RelayCall /\ last.envelope.source # last.relayer)
    => /\ last.raised = "RuntimeError"
       /\ last.posts = <<>>
       /\ last.appended = 0
       /\ last.ledger_rows = 0

\* C14: forward_relay_envelope, whether it succeeds or fails, leaves the
\* nonce ledger of the relaying node unchanged.
C14_RelayKeepsLedger ==
    RelayCall => last.ledger_rows = 0

\* An envelope was forwarded, its relay row written, and its nonce is not in
\* the ledger of the relaying node.
C14_Witness ==
    /\ RelayCall
    /\ last.ok
    /\ last.appended = 1
    /\ LastRow.direction = "relay"
    /\ LastRow.status = Status("forwarded_by", profile_name, NoCause)
    /\ last.nonce \notin {r.nonce : r \in nonces}

----------------------------------------------------------------------------
\* Claims about the inbox.

InboxCall == last.op = "interop_inbox"

\* The envelope's nonce was not in the ledger when the call began.
FreshBefore == last.ledger_rows = 1 \/ last.nonce \notin {r.nonce : r \in nonces}

KeysComplete == Required \subseteq last.envelope.keys
TargetOk == last.envelope.target = profile_name
InWindow ==
    /\ now - last.envelope.timestamp <= 300
    /\ last.envelope.timestamp - now <= 300
HmacOk == last.envelope.signature = sign(SharedKey, last.envelope)
PayloadIsObject == last.envelope.payload.kind = "object"

\* The mode in force: the mode file's content if it is one of the three
\* modes, compat otherwise.
ModeInForce == IF last.mode_file \in {"provenance", "strict"} THEN last.mode_file ELSE "compat"

\* The decision table: compat accepts any v2 state, provenance accepts an
\* absent or valid v2 signature, strict only a valid one.
IdentityTable(mode, v2) ==
    CASE mode = "compat" -> TRUE
      [] mode = "provenance" -> v2 \in {"absent", "valid"}
      [] OTHER -> v2 = "valid"

\* C15: when a hub node accepts at its inbox an envelope with task_type
\* route_envelope whose payload wraps an inner envelope, it relays the inner
\* envelope onward: a POST goes to the host of the inner envelope's target.
C15_HubRelaysRouted ==
    (/\ InboxCall
     /\ profile_name = Hub
     /\ last.ok
     /\ last.envelope.task_type = "route_envelope"
     /\ last.envelope.payload.ref = "envelope")
    => \E i \in 1..Len(last.posts) :
          last.posts[i].host = nodes_file.hosts[last.envelope.payload.envelope.target]

\* C16: an envelope with all required fields, this node as target, a
\* timestamp inside the skew window, a valid HMAC signature, an identity
\* signature acceptable in the mode in force, an object as payload and a
\* nonce not yet in the ledger is accepted: the result carries its source,
\* target, task_type, payload and nonce, identity_signature_valid is true
\* exactly when a v2 signature is present and verifies, and exactly one nonce
\* row and one inbox row with status received are added.
C16_ValidInbound ==
    (/\ InboxCall /\ KeysComplete /\ TargetOk /\ InWindow /\ HmacOk
     /\ IdentityTable(ModeInForce, last.envelope.v2)
     /\ PayloadIsObject /\ FreshBefore)
    => /\ last.ok
       /\ last.response.accepted
       /\ last.response.source = last.envelope.source
       /\ last.response.target = last.envelope.target
       /\ last.response.task_type = last.envelope.task_type
       /\ last.response.payload = last.envelope.payload
       /\ last.response.nonce = last.envelope.nonce
       /\ last.response.identity_signature_valid = (last.envelope.v2 = "valid")
       /\ last.ledger_rows = 1
       /\ \E r \in nonces : r.nonce = last.envelope.nonce
       /\ last.appended = 1
       /\ LastRow.direction = "inbox"
       /\ LastRow.nonce = last.envelope.nonce
       /\ LastRow.status = Status("received", "", NoCause)

\* A well-formed envelope without v2 signature was accepted, as in S2.
C16_Witness ==
    /\ InboxCall
    /\ last.ok
    /\ last.envelope.v2 = "absent"
    /\ ~last.response.identity_signature_valid
    /\ last.ledger_rows = 1
    /\ last.appended = 1

\* A valid envelope for this node with nonce n would be accepted now.
StillAcceptable(n) ==
    receive_outcome(build_envelope("kiera", profile_name, "skills_checkin",
                                   [kind |-> "object", ref |-> "p1"], n, now),
                    profile_name, now, "compat", nonces).raised = "none"

\* C17: a call that fails one of the checks schema completeness, target
\* match, skew window, HMAC signature or identity-mode policy raises an error
\* and inserts no nonce and no inbox row, so that the same nonce is still
\* accepted in a valid envelope.
C17_RejectedLeavesNoTrace ==
    (/\ InboxCall
     /\ ~(/\ KeysComplete /\ TargetOk /\ InWindow /\ HmacOk
          /\ IdentityTable(ModeInForce, last.envelope.v2)))
    => /\ last.raised = "RuntimeError"
       /\ last.detail \in ValidationErrors
       /\ last.ledger_rows = 0
       /\ last.appended = 0
       /\ last.nonce \notin {r.nonce : r \in nonces} => StillAcceptable(last.nonce)

\* An envelope was rejected by a check and its nonce is not in the ledger.
C17_Witness ==
    /\ InboxCall
    /\ last.detail \in ValidationErrors
    /\ last.nonce \notin {r.nonce : r \in nonces}
    /\ StillAcceptable(last.nonce)

\* C18: an otherwise valid envelope is rejected for skew when
\* |now - timestamp| > 300 and is not when |now - timestamp| <= 300, for
\* timestamps in the past and in the future.
C18_SkewWindow ==
    (/\ InboxCall /\ KeysComplete /\ TargetOk /\ HmacOk
     /\ IdentityTable(ModeInForce, last.envelope.v2)
     /\ PayloadIsObject /\ FreshBefore)
    => /\ InWindow => last.ok
       /\ ~InWindow => /\ last.raised = "RuntimeError"
                       /\ last.detail = "Envelope timestamp outside allowed skew window"

\* An envelope stamped exactly 300 seconds ahead of the clock was accepted.
C18_Witness ==
    /\ InboxCall
    /\ last.envelope.timestamp - now = 300
    /\ last.ok

\* C19: for an envelope with a valid HMAC signature (and otherwise valid),
\* compat accepts an absent, a valid and an invalid v2 signature; provenance
\* accepts absent and valid and rejects invalid; strict accepts only valid.
C19_IdentityModeTable ==
    (/\ InboxCall /\ KeysComplete /\ TargetOk /\ InWindow /\ HmacOk
     /\ PayloadIsObject /\ FreshBefore
     /\ last.mode_file \in {"compat", "provenance", "strict"})
    => /\ last.ok <=> IdentityTable(last.mode_file, last.envelope.v2)
       /\ ~last.ok =>
            /\ last.raised = "RuntimeError"
            /\ last.detail \in
                 {"Envelope identity signature invalid or missing (strict mode)",
                  "Envelope identity signature invalid (provenance mode)"}

\* In strict mode an envelope without v2 signature was rejected.
C19_Witness ==
    /\ InboxCall
    /\ last.mode_file = "strict"
    /\ last.envelope.v2 = "absent"
    /\ HmacOk
    /\ last.detail = "Envelope identity signature invalid or missing (strict mode)"

\* The envelope differs from the one that was signed in a covered field and
\* still carries that one's signature.
Tampered ==
    /\ \E f \in Covered : last.envelope[f] # last.original[f]
    /\ last.envelope.signature = last.original.signature

\* C20: an envelope as build_envelope produced it under the shared key
\* passes the HMAC check of _validate_envelope; with any one of source,
\* target, task_type, payload, nonce, timestamp changed and the signature
\* kept, the HMAC check fails and the envelope is rejected.
C20_SignVerifyRoundTrip ==
    InboxCall
    => /\ (/\ last.envelope = last.original
           /\ last.envelope.signature =
                build_envelope(last.envelope.source, last.envelope.target,
                               last.envelope.task_type, last.envelope.payload,
                               last.envelope.nonce, last.envelope.timestamp).signature)
          => /\ HmacOk
             /\ last.detail # "Envelope signature invalid"
       /\ Tampered
          => /\ ~HmacOk
             /\ ~last.ok
             /\ (TargetOk /\ InWindow) => last.detail = "Envelope signature invalid"

\* An envelope whose payload was changed after signing was rejected for its
\* signature.
C20_Witness ==
    /\ InboxCall
    /\ Tampered
    /\ last.envelope.payload # last.original.payload
    /\ last.detail = "Envelope signature invalid"

----------------------------------------------------------------------------
\* Claims about the policy engine and the gate of the tool registry.

\* C21: for every tool name, every tier of tier0..tier2 and every permitted
\* set, check answers allow exactly for a permitted tier0, require_approval
\* exactly for a permitted tier1 or tier2, deny in every other case, and the
\* decision is the same whatever the tool name.
C21_DecisionTable ==
    (last.op = "check" /\ last.tier \in Tiers) =>
        /\ last.decision \in {"allow", "require_approval", "deny"}
        /\ (last.decision = "allow") <=> (last.tier = "tier0" /\ "tier0" \in allowed)
        /\ (last.decision = "require_approval") <=>
               (last.tier \in {"tier1", "tier2"} /\ last.tier \in allowed)
        /\ \A n \in ToolNames : check(n, last.tier, allowed).decision = last.decision

C21_Witness ==
    /\ last.op = "check"
    /\ last.tier = "tier2"
    /\ allowed = {"tier1", "tier2"}
    /\ last.decision = "require_approval"

\* C22: execute on a registered tool whose decision is require_approval does
\* not invoke the tool, enqueues exactly one approval, pending and
\* not_executed, for that tool and payload, emits one tool_queued_for_approval
\* event, and returns ok = false with approval_required and the new row's id.
C22_QueuedForApproval ==
    (last.op = "execute" /\ last.tool \in RegisteredTools
        /\ last.decision = "require_approval") =>
        /\ ~last.invoked
        /\ last.enqueued = 1
        /\ last.id = Len(approvals)
        /\ approvals[last.id].tool_name = last.tool
        /\ approvals[last.id].payload = last.payload
        /\ approvals[last.id].status = "pending"
        /\ approvals[last.id].execution_status = "not_executed"
        /\ last.events = <<Event("tool_queued_for_approval", last.tool, "require_approval")>>
        /\ ~last.ok
        /\ last.raised = "none"
        /\ last.approval_required

C22_Witness ==
    /\ last.op = "execute"
    /\ last.tool = "request_email"
    /\ last.decision = "require_approval"
    /\ last.enqueued = 1

\* The reason check gives for refusing a tier.
DenyReason(tier) ==
    IF tier = "tier1" THEN <<"Tier 1 is not permitted for this profile">>
    ELSE IF tier = "tier2" THEN <<"Tier 2 is restricted to Jason Core">>
    ELSE <<"Tier 0 is not permitted for this profile">>

\* C23: execute on a registered tool whose tier is outside the permitted set
\* does not invoke the tool, adds no approval, emits exactly one event, with
\* decision deny, and returns ok = false with the policy reason as its error.
C23_PolicyDeny ==
    (last.op = "execute" /\ last.tool \in RegisteredTools
        /\ TierOf(last.tool) \notin allowed) =>
        /\ ~last.invoked
        /\ last.enqueued = 0
        /\ Len(last.events) = 1
        /\ last.events[1].decision = "deny"
        /\ ~last.ok
        /\ last.raised = "none"
        /\ last.detail = "error"
        /\ last.reason = DenyReason(TierOf(last.tool))

C23_Witness ==
    /\ last.op = "execute"
    /\ last.tool = "request_email"
    /\ "tier1" \notin allowed
    /\ last.decision = "deny"

\* The elements of a list.
Range(list) == {list[i] : i \in 1..Len(list)}

\* C27: check_skill_permissions answers require_approval exactly when the
\* request holds one of screen, filesystem_write, network_external,
\* secrets_access, and allow otherwise, the empty request and a request of
\* empty strings included.
C27_SkillPermissions ==
    last.op = "check_skill_permissions" =>
        LET hit == Range(last.requested)
                       \cap {"screen", "filesystem_write", "network_external",
                             "secrets_access"} # {}
        IN /\ (last.decision = "require_approval") <=> hit
           /\ (last.decision = "allow") <=> ~hit

C27_Witness ==
    /\ last.op = "check_skill_permissions"
    /\ last.requested = <<"", "secrets_access">>
    /\ last.decision = "require_approval"

----------------------------------------------------------------------------
\* Claims about the control surface.

\* C24: every envelope object posted to /interop/inbox that receive_envelope
\* does not accept is answered with a 4xx status and leaves exactly one event
\* with decision deny; every accepted one leaves exactly one event with
\* decision allow.
C24_RejectionReported ==
    InboxCall =>
        IF last.ok
        THEN Len(last.events) = 1 /\ last.events[1].decision = "allow"
        ELSE /\ last.status_code \in 400..499
             /\ Len(last.events) = 1
             /\ last.events[1].decision = "deny"

\* C25: in public read-only mode every POST is answered 403, every GET whose
\* path is not in the configured allowlist is answered 403, and such a request
\* changes no table, appends no event and runs no tool.
C25_ReadOnlyMode ==
    (/\ public_readonly_mode
     /\ \/ http.method = "POST"
        \/ http.method = "GET" /\ http.path \notin public_readonly_get_endpoints) =>
        /\ http.status_code = 403
        /\ ~http.changed
        /\ http.events = 0
        /\ ~http.invoked

----------------------------------------------------------------------------
\* Claims about the check-in loop and the message log.

\* An outbox row of a check-in that was delivered, directly or via the hub.
DeliveredCheckin(row) ==
    /\ row.direction = "outbox"
    /\ row.task_type = "skills_checkin"
    /\ row.status.kind \in {"sent", "sent:routed"}

\* C26: for each peer, two check-ins delivered (directly or via the hub) lie
\* at least interval_seconds apart, over any sequence of wakes of the loop.
C26_AtMostOncePerInterval ==
    \A i, j \in 1..Len(messages) :
        (/\ i < j
         /\ DeliveredCheckin(messages[i])
         /\ DeliveredCheckin(messages[j])
         /\ messages[i].target = messages[j].target) =>
            messages[j].created_at - messages[i].created_at >= DAILY_INTERVAL_SECONDS

\* C28: the ids of the message log grow strictly in insertion order, and no
\* operation of the bridge changes or removes a row once inserted: every
\* step keeps each row there is, with its id, direction, nonce and status.
C28_AppendOnlyLog ==
    [][/\ Len(messages') >= Len(messages)
       /\ \A i \in 1..Len(messages) : messages'[i] = messages[i]
       /\ \A i, j \in 1..Len(messages') : i < j => messages'[i].id < messages'[j].id]_vars

C28_Witness ==
    /\ Len(messages) >= 3
    /\ \E i, j \in 1..Len(messages) :
           messages[i].direction = "inbox" /\ messages[j].direction = "outbox"

----------------------------------------------------------------------------
\* Claims about requests served at the same time.

\* The threads whose receive_envelope returned accepted for the nonce.
AcceptedThreads(nonce) ==
    {t \in Threads : threads[t].pc = "done" /\ threads[t].ok
                        /\ threads[t].envelope.nonce = nonce}

\* C29: however the steps of two receive_envelope calls with the same nonce
\* interleave, at most one returns accepted, the ledger holds at most one row
\* for the nonce and at most one inbox row with the nonce is written.
C29_ConcurrentReplayDefence ==
    \A nonce \in InboundNonces :
        /\ Cardinality(AcceptedThreads(nonce)) <= 1
        /\ Cardinality({r \in nonces : r.nonce = nonce}) <= 1
        /\ Cardinality({i \in 1..Len(messages) :
                           messages[i].direction = "inbox" /\ messages[i].nonce = nonce}) <= 1

\* Both calls found the ledger empty; one inserted, the other's INSERT failed.
C29_Witness ==
    /\ threads["t1"].pc = "done" /\ threads["t2"].pc = "done"
    /\ threads["t1"].envelope.nonce = threads["t2"].envelope.nonce
    /\ threads["t1"].ok
    /\ threads["t2"].raised = "IntegrityError"

\* C30: however the steps of two execute_approved calls on one approved,
\* not yet executed approval interleave, the tool runs at most once and
\* execution_result is written at most once.
C30_ConcurrentExecuteApproved ==
    /\ \A i \in ApprovalIds : toolInvocations[i] <= 1
    /\ Cardinality({t \in Threads : threads[t].persisted}) <= 1

----------------------------------------------------------------------------
\* Claims about concurrent resolve calls.

\* The calls on the approval that was pending, once every thread has made one.
Resolvers == {t \in Threads : threads[t].pc = "done" /\ threads[t].id = 1}

\* C31: when two resolve calls on the same pending approval have both ended,
\* neither raised, exactly one returned true, and the approval's status is
\* the one that call asked for.
C31_ConcurrentResolve ==
    Resolvers = Threads =>
        /\ \A t \in Threads : threads[t].raised = "none"
        /\ \E w \in Threads :
              /\ threads[w].ok
              /\ \A t \in Threads \ {w} : ~threads[t].ok
              /\ approvals[1].status =
                    (IF threads[w].approve THEN "approved" ELSE "rejected")

----------------------------------------------------------------------------
\* Claims about the relay record.

\* The call reached the onward POST and the POST returned a response.
OnwardPostSucceeded ==
    /\ last.posts # <<>>
    /\ last.posts[Len(last.posts)].outcome = "ok"

\* C32: forward_relay_envelope appends exactly one row, a relay row with
\* status forwarded_by:<this profile> for the forwarded nonce, when the
\* onward POST succeeds; a call that raises (source mismatch, target not
\* configured, inner envelope invalid, onward POST failed) appends none, and
\* a call raises exactly when the onward POST did not succeed.
C32_RelayRecordOnSuccess ==
    RelayCall =>
        /\ (last.raised = "none") = OnwardPostSucceeded
        /\ OnwardPostSucceeded =>
              /\ last.appended = 1
              /\ LastRow.direction = "relay"
              /\ LastRow.status = Status("forwarded_by", profile_name, NoCause)
              /\ LastRow.nonce = last.nonce
        /\ last.raised # "none" => last.appended = 0

\* One envelope was forwarded and recorded; a later call whose onward POST
\* failed left the log as it was.
C32_Witness ==
    /\ RelayCall
    /\ last.posts # <<>>
    /\ last.raised \in PostOutcomes \ {"ok"}
    /\ last.appended = 0
    /\ Len(messages) = 1
    /\ LastRow.direction = "relay"
    /\ LastRow.status = Status("forwarded_by", profile_name, NoCause)

----------------------------------------------------------------------------
\* Claims about the check-in scheduler.

CheckinCall == last.op = "send_daily_skills_checkins"

\* C33: a call of send_daily_skills_checkins returns whatever the sends did,
\* so the loop goes on to its sleep and its next wake; on the first wake,
\* when every configured peer is due, every peer gets its result and its
\* episodic event, allow for a delivered check-in and deny for a failed one.
C33_SchedulerSurvivesFailures ==
    CheckinCall =>
        /\ last.raised = "none"
        /\ now = 1 + WAKE_SECONDS =>
              Len(last.events) = Len(target_order(profile_name, nodes_file))

\* C34 as stated: once running is false, no round of check-ins begins.
C34_NoRoundAfterShutdown == scheduler.late_rounds = 0

\* C34: once running is false the loop begins at most one more round, the
\* one whose `while running` test had passed before the flag was cleared, and
\* the thread ends.
C34_CooperativeShutdown ==
    /\ [](scheduler.late_rounds <= 1)
    /\ [][scheduler'.late_rounds > scheduler.late_rounds
             => scheduler.pc = "call" /\ scheduler'.pc \in {"sleep", "ended"}]_vars
    /\ (~scheduler.running ~> scheduler.pc = "ended")

\* The flag was cleared between the test and the call; the round ran, the
\* sleep broke off at once and the thread ended.
C34_Witness ==
    /\ ~scheduler.running
    /\ scheduler.late_rounds = 1
    /\ scheduler.pc = "ended"
    /\ last.raised = "none"

----------------------------------------------------------------------------
\* Claims about tool failure and recorded execution.

\* C35: ToolRegistry.execute of a tier 0 tool that returns ok = false ran the
\* tool once, wrote one tool_executed event with decision allow, queued
\* nothing, and returned the tool's ok = false and output as they were.
C35_ToolFailureOnAllowPath ==
    (last.op = "execute" /\ last.tier = "tier0" /\ last.outcome = "fail") =>
        /\ last.decision = "allow"
        /\ last.runs = 1
        /\ last.events = <<Event("tool_executed", last.tool, "allow")>>
        /\ last.raised = "none"
        /\ ~last.ok
        /\ last.detail = "tool_error"
        /\ last.enqueued = 0

\* get_time ran and reported failure.
C35_Witness ==
    /\ last.op = "execute"
    /\ last.tool = "get_time"
    /\ last.outcome = "fail"
    /\ last.invoked
    /\ ~last.ok

\* C36: after execute_approved on an existing row, a tool that ran and
\* returned left the row executed with its {ok, output}; a row executed
\* before the call gave ok = true, already_executed, without a run; and an
\* approved row whose tool is not registered gave the error Unknown tool
\* and stayed as it was.
C36_ExecutionRecorded ==
    (last.op = "execute_approved" /\ Exists(approvals, last.id)) =>
        LET row == approvals[last.id] IN
        /\ (last.invoked /\ last.raised = "none") =>
              /\ row.execution_status = "executed"
              /\ row.execution_result = [ok |-> last.ok, output |-> last.detail]
        /\ (~last.invoked /\ row.execution_status = "executed") =>
              /\ last.ok
              /\ last.detail = "already_executed"
        /\ (row.status = "approved" /\ row.tool_name \notin RegisteredTools) =>
              /\ last.raised = "none"
              /\ ~last.ok
              /\ last.detail = "Unknown tool"
              /\ row.execution_status = "not_executed"
              /\ toolInvocations[last.id] = 0

\* C37: after POST /approvals/{id}/resolve on an existing row, the
\* approval_resolved event was written exactly when the request changed the
\* status; a request that changed it to approved carried approve: true, and
\* one without approve or with approve: false changed it to rejected.
C37_ResolveEndpointDecision ==
    (last.op = "post_resolve" /\ Exists(approvals, last.id)) =>
        LET row == approvals[last.id] IN
        /\ (Len(last.events) = 1) = last.ok
        /\ last.ok => row.status \in {"approved", "rejected"}
        /\ (last.ok /\ row.status = "approved") => last.payload.ref = "true"
        /\ (last.ok /\ last.payload.ref \in {"absent", "false"}) => row.status = "rejected"

----------------------------------------------------------------------------
\* Claims about delivery by two routes.

\* C38: of the two arrivals of one send_task's envelope, the direct one and
\* the one through the hub, at most one is accepted, and the inbox holds at
\* most one row of that send, under the nonce send_task gave it.
C38_AtMostOnceAcrossRoutes ==
    /\ Cardinality({t \in Threads : threads[t].pc = "done" /\ threads[t].ok}) <= 1
    /\ Len(messages) <= 1
    /\ \A i \in 1..Len(messages) :
          /\ messages[i].direction = "inbox"
          /\ messages[i].nonce = last.envelope.nonce

\* The direct arrival was accepted, the arrival through the hub was turned
\* away as a replay, and the inbox holds the one row.
C38_Witness ==
    /\ threads["t1"].pc = "done" /\ threads["t1"].ok
    /\ threads["t2"].pc = "done" /\ threads["t2"].raised = "RuntimeError"
    /\ threads["t2"].detail = "Replay detected: nonce already seen"
    /\ threads["t2"].envelope.nonce = last.envelope.nonce
    /\ Len(messages) = 1


\* The nonce ledger as it was when the last inbox call began.
LedgerBefore ==
    IF last.ledger_rows = 1 THEN {r \in nonces : r.nonce # last.nonce} ELSE nonces

\* The mode file is missing or holds, blanks and newline aside, something
\* other than one of the three modes.
NoModeInFile == last.mode_file \notin {"compat", "provenance", "strict", " strict\n"}

\* C39: when the identity-mode file is missing or its content is anything
\* other than compat, provenance or strict, the inbox call ends as it does in
\* compat mode: the same exception or none, the same error text, the same
\* nonce insert, and an envelope with a valid HMAC is not rejected on
\* account of its v2 signature.
C39_IdentityModeFallback ==
    (InboxCall /\ NoModeInFile)
    => LET o == receive_outcome(last.envelope, profile_name, now, "compat", LedgerBefore)
       IN /\ last.raised = o.raised
          /\ last.detail = o.detail
          /\ last.ledger_rows = (IF o.nonce_insert THEN 1 ELSE 0)
          /\ HmacOk => last.detail \notin
                {"Envelope identity signature invalid or missing (strict mode)",
                 "Envelope identity signature invalid (provenance mode)"}

====
